---- MODULE Spec2Model ----
(***************************************************************************)
(* The ledger of BlockWallet: Transaction, TransactionPool, Block and      *)
(* Blockchain (src/transaction.py, src/blockchain.py) with the signing     *)
(* and address primitives of src/crypto_utils.py and the Wallet of         *)
(* src/wallet.py.                                                          *)
(*                                                                         *)
(* Python objects live in a heap, txs: a Transaction is referred to by its *)
(* position in txs, so that the pending queue, the pool and the blocks     *)
(* share one object, as they do in the code.  A float is a record: NaN, or *)
(* a number kept exact (rounding is not modelled).  SHA-256 is modelled as *)
(* collision free: a hash keeps what was hashed, and its leading hex       *)
(* digits are a function of it.                                            *)
(***************************************************************************)
EXTENDS Integers, Sequences, FiniteSets, TLC

\* ------------------------------------------------------------------- state
VARIABLES
    txs,                   \* the heap of Transaction objects
    chain,                 \* Blockchain.chain
    pending_transactions,  \* Blockchain.pending_transactions (refs into txs)
    transaction_pool,      \* Blockchain.transaction_pool
    now,                   \* time.time(), in ticks
    last,                  \* what the last call returned or raised
    calls,                 \* the calls in progress, one frame for each caller
    wallet                 \* the Wallet and what its wallet file holds

vars ==
    <<txs, chain, pending_transactions, transaction_pool, now, last, calls, wallet>>

\* ------------------------------------------------------------------ bounds
MaxTx == 2
MaxBlocks == 2
MaxTime == 1
TicksPerSecond == 2

\* ------------------------------------------------------- program constants
mining_reward == 10
difficulty == 2

\* ------------------------------------------------------------------ values
None == <<>>

F(n) == [nan |-> FALSE, v |-> n]
NaN == [nan |-> TRUE, v |-> 0]
FAdd(a, b) == IF a.nan \/ b.nan THEN NaN ELSE F(a.v + b.v)
FSub(a, b) == IF a.nan \/ b.nan THEN NaN ELSE F(a.v - b.v)
FLess(a, b) == ~a.nan /\ ~b.nan /\ a.v < b.v
FLeq(a, b) == ~a.nan /\ ~b.nan /\ a.v <= b.v

Keys == {"K1", "K2"}
get_public_key(private_key) == <<"pub", private_key>>
create_address(public_key) ==
    CASE public_key[2] = "K1" -> "A1"
      [] public_key[2] = "K2" -> "A2"

Addresses == {create_address(get_public_key(k)) : k \in Keys}
Senders == {"A1", "A2", "system"}
Recipients == {"A2"}
Amounts == {NaN, F(8)}
Fees == {F(2)}
Signers == {"K1", "unsigned"}
SigEntropy == {1}
Miners == {"A1"}
TxInputs == [sender : Senders, recipient : Recipients, amount : Amounts,
             fee : Fees, signer : Signers, k : SigEntropy]

\* ------------------------------------------------------------- Transaction
Transaction(sender, recipient, amount, fee, message, time) ==
    [transaction_id |-> None,
     sender_address |-> sender,
     recipient_address |-> recipient,
     amount |-> amount,
     fee |-> fee,
     message |-> message,
     timestamp |-> time,
     signature |-> None,
     status |-> "pending"]

to_dict(tx) ==
    [transaction_id |-> tx.transaction_id,
     sender_address |-> tx.sender_address,
     recipient_address |-> tx.recipient_address,
     amount |-> tx.amount,
     fee |-> tx.fee,
     message |-> tx.message,
     timestamp |-> tx.timestamp,
     signature |-> tx.signature,
     status |-> tx.status]

get_transaction_data(tx) ==
    [sender_address |-> tx.sender_address,
     recipient_address |-> tx.recipient_address,
     amount |-> tx.amount,
     fee |-> tx.fee,
     message |-> tx.message,
     timestamp |-> tx.timestamp]

hash_transaction(transaction_data) == <<"sha256", transaction_data>>

Transaction_calculate_hash(tx) == hash_transaction(get_transaction_data(tx))

sign_message(private_key, message, k) == <<"ecdsa", private_key, message, k>>

\* Mutant of sign_transaction: the id is the hash of the signed object.
sign_transaction_IdOfAll(tx, private_key, k) ==
    LET signed == [tx EXCEPT !.signature =
                       sign_message(private_key, get_transaction_data(tx), k)]
    IN  [signed EXCEPT !.transaction_id = hash_transaction(to_dict(signed))]

sign_transaction(tx, private_key, k) ==
    LET signed == [tx EXCEPT !.signature =
                       sign_message(private_key, get_transaction_data(tx), k)]
    IN  [signed EXCEPT !.transaction_id = Transaction_calculate_hash(signed)]

\* Mutant of CryptoUtils_verify_signature: the key is not looked at.
CryptoUtils_verify_signature_AnyKey(public_key, message, signature) ==
    /\ Len(signature) = 4
    /\ signature[1] = "ecdsa"
    /\ signature[3] = message

CryptoUtils_verify_signature(public_key, message, signature) ==
    /\ Len(signature) = 4
    /\ signature[1] = "ecdsa"
    /\ get_public_key(signature[2]) = public_key
    /\ signature[3] = message

verify_signature(tx, public_key) ==
    IF tx.signature = None
    THEN FALSE
    ELSE CryptoUtils_verify_signature(public_key, get_transaction_data(tx),
                                      tx.signature)

is_valid(tx) ==
    IF tx.sender_address = "" \/ tx.recipient_address = ""
    THEN <<FALSE, "Invalid sender or recipient address">>
    ELSE IF FLeq(tx.amount, F(0))
    THEN <<FALSE, "Amount must be positive">>
    ELSE IF FLess(tx.fee, F(0))
    THEN <<FALSE, "Fee cannot be negative">>
    ELSE IF tx.signature = None
    THEN <<FALSE, "Transaction not signed">>
    ELSE IF tx.transaction_id = None
    THEN <<FALSE, "Invalid transaction ID">>
    ELSE IF tx.sender_address = tx.recipient_address
    THEN <<FALSE, "Sender and recipient cannot be the same">>
    ELSE <<TRUE, "Transaction is valid">>

\* ------------------------------------------------------------------- Block
StrCode(str) ==
    CASE str = "A1" -> 1
      [] str = "A2" -> 2
      [] str = "system" -> 3
      [] OTHER -> 0

FloatCode(a) == IF a.nan THEN 15 ELSE a.v % 16

TxCode(d) ==
    StrCode(d.sender_address) * 3 + StrCode(d.recipient_address) * 5
    + FloatCode(d.amount) + FloatCode(d.fee) * 7 + d.timestamp * 11
    + (IF d.status = "confirmed" THEN 13 ELSE 0)

RECURSIVE SumTxCodes(_)
SumTxCodes(dicts) ==
    IF dicts = <<>> THEN 0 ELSE TxCode(Head(dicts)) + SumTxCodes(Tail(dicts))

\* The number the two leading hex digits of a block hash spell: a stand-in
\* for SHA-256 in which every field of the hashed data counts and a nonce
\* with two leading zeros always exists.
Digest(h) ==
    IF h[1] # "sha256"
    THEN 0
    ELSE LET d == h[2]
         IN  (d.index * 7 + d.timestamp * 13 + d.nonce * 37
              + Len(d.previous_hash) * 3 + SumTxCodes(d.transactions)) % 32

hexdigest(h) == LET n == Digest(h) IN <<n \div 16, n % 16>>

\* h[:n] of the hex string
HexPrefix(h, n) ==
    LET hex == hexdigest(h) IN SubSeq(hex, 1, IF n < Len(hex) THEN n ELSE Len(hex))

\* "0" * n
Zeros(n) == [i \in 1..n |-> 0]

Block_calculate_hash(block, heap) ==
    <<"sha256",
      [index |-> block.index,
       timestamp |-> block.timestamp,
       transactions |-> [i \in 1..Len(block.transactions) |->
                            to_dict(heap[block.transactions[i]])],
       previous_hash |-> block.previous_hash,
       nonce |-> block.nonce]>>

Block(index, transactions, previous_hash, time, heap) ==
    LET fresh == [index |-> index,
                  timestamp |-> time,
                  transactions |-> transactions,
                  previous_hash |-> previous_hash,
                  nonce |-> 0,
                  hash |-> None]
    IN  [fresh EXCEPT !.hash = Block_calculate_hash(fresh, heap)]

\* Mutant of mine_block: no search is made.
mine_block_NoWork(block, heap, d) == block

RECURSIVE mine_block(_, _, _)
mine_block(block, heap, d) ==
    IF HexPrefix(block.hash, d) = Zeros(d)
    THEN block
    ELSE LET stepped == [block EXCEPT !.nonce = @ + 1]
         IN  mine_block([stepped EXCEPT !.hash = Block_calculate_hash(stepped, heap)],
                        heap, d)

\* --------------------------------------------------------- TransactionPool
TransactionPool == [transactions |-> <<>>, confirmed_transactions |-> <<>>]

RemoveAt(seq, i) == SubSeq(seq, 1, i - 1) \o SubSeq(seq, i + 1, Len(seq))

\* Mutant of TransactionPool_add_transaction: no check for a duplicate.
TransactionPool_add_transaction_NoCheck(pool, heap, ref) ==
    IF ~is_valid(heap[ref])[1]
    THEN [error |-> "Invalid transaction", pool |-> pool]
    ELSE [error |-> "",
          pool |-> [pool EXCEPT !.transactions = Append(@, ref)]]

\* Mutant of TransactionPool_add_transaction: the newest entry goes first.
TransactionPool_add_transaction_Front(pool, heap, ref) ==
    IF ~is_valid(heap[ref])[1]
    THEN [error |-> "Invalid transaction", pool |-> pool]
    ELSE IF \E i \in 1..Len(pool.transactions) :
                heap[pool.transactions[i]].transaction_id = heap[ref].transaction_id
    THEN [error |-> "Transaction already exists in pool", pool |-> pool]
    ELSE [error |-> "",
          pool |-> [pool EXCEPT !.transactions = <<ref>> \o @]]

TransactionPool_add_transaction(pool, heap, ref) ==
    IF ~is_valid(heap[ref])[1]
    THEN [error |-> "Invalid transaction", pool |-> pool]
    ELSE IF \E i \in 1..Len(pool.transactions) :
                heap[pool.transactions[i]].transaction_id = heap[ref].transaction_id
    THEN [error |-> "Transaction already exists in pool", pool |-> pool]
    ELSE [error |-> "",
          pool |-> [pool EXCEPT !.transactions = Append(@, ref)]]

\* Mutant of confirm_transaction: the status is left as it is.
confirm_transaction_NoStatus(pool, heap, transaction_id) ==
    LET hits == {i \in 1..Len(pool.transactions) :
                    heap[pool.transactions[i]].transaction_id = transaction_id}
    IN  IF hits = {}
        THEN [found |-> FALSE, pool |-> pool, heap |-> heap]
        ELSE LET i == CHOOSE j \in hits : \A m \in hits : j <= m
                 ref == pool.transactions[i]
             IN  [found |-> TRUE,
                  pool |-> [transactions |-> RemoveAt(pool.transactions, i),
                            confirmed_transactions |->
                                Append(pool.confirmed_transactions, ref)],
                  heap |-> heap]

confirm_transaction(pool, heap, transaction_id) ==
    LET hits == {i \in 1..Len(pool.transactions) :
                    heap[pool.transactions[i]].transaction_id = transaction_id}
    IN  IF hits = {}
        THEN [found |-> FALSE, pool |-> pool, heap |-> heap]
        ELSE LET i == CHOOSE j \in hits : \A m \in hits : j <= m
                 ref == pool.transactions[i]
             IN  [found |-> TRUE,
                  pool |-> [transactions |-> RemoveAt(pool.transactions, i),
                            confirmed_transactions |->
                                Append(pool.confirmed_transactions, ref)],
                  heap |-> [heap EXCEPT ![ref].status = "confirmed"]]

\* -------------------------------------------------------------- Blockchain
create_genesis_block(time) == Block(0, <<>>, <<"0">>, time, <<>>)

\* Mutant of get_latest_block: the first block is taken for the latest.
get_latest_block_Genesis(ch) == ch[1]

get_latest_block(ch) == ch[Len(ch)]

RECURSIVE ChainRefs(_)
ChainRefs(ch) ==
    IF ch = <<>> THEN <<>> ELSE Head(ch).transactions \o ChainRefs(Tail(ch))

RECURSIVE BalanceLoop(_, _, _, _)
BalanceLoop(refs, heap, address, balance) ==
    IF refs = <<>>
    THEN balance
    ELSE LET tx == heap[Head(refs)]
             credited == IF tx.recipient_address = address
                         THEN FAdd(balance, tx.amount)
                         ELSE balance
             debited == IF tx.sender_address = address
                        THEN FSub(credited, FAdd(tx.amount, tx.fee))
                        ELSE credited
         IN  BalanceLoop(Tail(refs), heap, address, debited)

\* Mutant of get_balance: the pending queue is replayed too.
get_balance_WithPending(ch, heap, address) ==
    BalanceLoop(ChainRefs(ch) \o pending_transactions, heap, address, F(0))

get_balance(ch, heap, address) == BalanceLoop(ChainRefs(ch), heap, address, F(0))

\* Mutant of InsufficientBalance: the boundary is rejected too.
InsufficientBalance_Strict(sender_balance, required_amount) ==
    FLeq(sender_balance, required_amount)

InsufficientBalance(sender_balance, required_amount) ==
    FLess(sender_balance, required_amount)

\* Mutant of add_transaction: the pending queue is appended to before the
\* pool has accepted the transaction.
add_transaction_AppendFirst(st, ref) ==
    LET tx == st.txs[ref]
    IN  IF ~is_valid(tx)[1]
        THEN [error |-> "Invalid transaction", st |-> st]
        ELSE IF InsufficientBalance(get_balance(st.chain, st.txs, tx.sender_address),
                                    FAdd(tx.amount, tx.fee))
        THEN [error |-> "Insufficient balance", st |-> st]
        ELSE LET added == TransactionPool_add_transaction(st.transaction_pool,
                                                          st.txs, ref)
             IN  [error |-> added.error,
                  st |-> [st EXCEPT !.transaction_pool = added.pool,
                                    !.pending_transactions = Append(@, ref)]]

add_transaction(st, ref) ==
    LET tx == st.txs[ref]
    IN  IF ~is_valid(tx)[1]
        THEN [error |-> "Invalid transaction", st |-> st]
        ELSE IF InsufficientBalance(get_balance(st.chain, st.txs, tx.sender_address),
                                    FAdd(tx.amount, tx.fee))
        THEN [error |-> "Insufficient balance", st |-> st]
        ELSE LET added == TransactionPool_add_transaction(st.transaction_pool,
                                                          st.txs, ref)
             IN  IF added.error # ""
                 THEN [error |-> added.error,
                       st |-> [st EXCEPT !.transaction_pool = added.pool]]
                 ELSE [error |-> "",
                       st |-> [st EXCEPT !.transaction_pool = added.pool,
                                         !.pending_transactions = Append(@, ref)]]

\* Mutant of ConfirmAll: only the head of the queue is confirmed.
ConfirmAll_FirstOnly(refs, pool, heap) ==
    IF refs = <<>>
    THEN [pool |-> pool, heap |-> heap]
    ELSE LET c == confirm_transaction(pool, heap, heap[Head(refs)].transaction_id)
         IN  [pool |-> c.pool, heap |-> c.heap]

RECURSIVE ConfirmAll(_, _, _)
ConfirmAll(refs, pool, heap) ==
    IF refs = <<>>
    THEN [pool |-> pool, heap |-> heap]
    ELSE LET c == confirm_transaction(pool, heap, heap[Head(refs)].transaction_id)
         IN  ConfirmAll(Tail(refs), c.pool, c.heap)

RewardTransaction(address, time) ==
    [Transaction("system", address, F(mining_reward), F(0), "Mining reward", time)
        EXCEPT !.transaction_id = <<"reward", time \div TicksPerSecond>>,
               !.signature = <<"system_signature">>,
               !.status = "confirmed"]

\* Mutant of TransactionsToMine: the reward is put first.
TransactionsToMine_RewardFirst(pending, reward_ref) == <<reward_ref>> \o pending

TransactionsToMine(pending, reward_ref) == Append(pending, reward_ref)

\* Mutant of MineAndAppend: the new block takes the place of the latest one.
MineAndAppend_Replace(st, mining_reward_address, time) ==
    LET heap1 == Append(st.txs, RewardTransaction(mining_reward_address, time))
        transactions_to_mine ==
            TransactionsToMine(st.pending_transactions, Len(heap1))
        new_block == Block(Len(st.chain), transactions_to_mine,
                           get_latest_block(st.chain).hash, time, heap1)
        mined == mine_block(new_block, heap1, difficulty)
        confirmed == ConfirmAll(st.pending_transactions,
                                st.transaction_pool, heap1)
    IN  [result |-> TRUE,
         st |-> [chain |-> IF Len(st.chain) > 1
                           THEN [st.chain EXCEPT ![Len(st.chain)] = mined]
                           ELSE Append(st.chain, mined),
                 pending_transactions |-> <<>>,
                 transaction_pool |-> confirmed.pool,
                 txs |-> confirmed.heap]]

\* mine_pending_transactions past its check of the queue
MineAndAppend(st, mining_reward_address, time) ==
    LET heap1 == Append(st.txs, RewardTransaction(mining_reward_address, time))
        transactions_to_mine ==
            TransactionsToMine(st.pending_transactions, Len(heap1))
        new_block == Block(Len(st.chain), transactions_to_mine,
                           get_latest_block(st.chain).hash, time, heap1)
        mined == mine_block(new_block, heap1, difficulty)
        confirmed == ConfirmAll(st.pending_transactions,
                                st.transaction_pool, heap1)
    IN  [result |-> TRUE,
         st |-> [chain |-> Append(st.chain, mined),
                 pending_transactions |-> <<>>,
                 transaction_pool |-> confirmed.pool,
                 txs |-> confirmed.heap]]

\* Mutant of mine_pending_transactions: the queue is left as it was.
mine_pending_transactions_KeepsQueue(st, mining_reward_address, time) ==
    IF st.pending_transactions = <<>>
    THEN [result |-> FALSE, st |-> st]
    ELSE LET r == MineAndAppend(st, mining_reward_address, time)
         IN  [r EXCEPT !.st.pending_transactions = st.pending_transactions]

\* Mutant of mine_pending_transactions: an empty queue is mined too.
mine_pending_transactions_Always(st, mining_reward_address, time) ==
    MineAndAppend(st, mining_reward_address, time)

mine_pending_transactions(st, mining_reward_address, time) ==
    IF st.pending_transactions = <<>>
    THEN [result |-> FALSE, st |-> st]
    ELSE MineAndAppend(st, mining_reward_address, time)

\* Mutant of is_chain_valid: the link is looked at before the hash.
is_chain_valid_LinkFirst(ch, heap) ==
    LET bad(i) == \/ ch[i].hash # Block_calculate_hash(ch[i], heap)
                  \/ ch[i].previous_hash # ch[i - 1].hash
                  \/ HexPrefix(ch[i].hash, difficulty) # Zeros(difficulty)
        failing == {i \in 2..Len(ch) : bad(i)}
    IN  IF failing = {}
        THEN <<TRUE, "Blockchain is valid", 0>>
        ELSE LET i == CHOOSE j \in failing : \A m \in failing : j <= m
             IN  IF ch[i].previous_hash # ch[i - 1].hash
                 THEN <<FALSE, "Invalid previous hash at block", i - 1>>
                 ELSE IF ch[i].hash # Block_calculate_hash(ch[i], heap)
                 THEN <<FALSE, "Invalid hash at block", i - 1>>
                 ELSE <<FALSE, "not properly mined: Block", i - 1>>

is_chain_valid(ch, heap) ==
    LET bad(i) == \/ ch[i].hash # Block_calculate_hash(ch[i], heap)
                  \/ ch[i].previous_hash # ch[i - 1].hash
                  \/ HexPrefix(ch[i].hash, difficulty) # Zeros(difficulty)
        failing == {i \in 2..Len(ch) : bad(i)}
    IN  IF failing = {}
        THEN <<TRUE, "Blockchain is valid", 0>>
        ELSE LET i == CHOOSE j \in failing : \A m \in failing : j <= m
             IN  IF ch[i].hash # Block_calculate_hash(ch[i], heap)
                 THEN <<FALSE, "Invalid hash at block", i - 1>>
                 ELSE IF ch[i].previous_hash # ch[i - 1].hash
                 THEN <<FALSE, "Invalid previous hash at block", i - 1>>
                 ELSE <<FALSE, "not properly mined: Block", i - 1>>

\* refs with ref put behind every entry that is not older than it
RECURSIVE InsertByTimestamp(_, _, _)
InsertByTimestamp(sorted, heap, ref) ==
    IF sorted = <<>>
    THEN <<ref>>
    ELSE IF heap[Head(sorted)].timestamp >= heap[ref].timestamp
    THEN <<Head(sorted)>> \o InsertByTimestamp(Tail(sorted), heap, ref)
    ELSE <<ref>> \o sorted

\* list.sort(key = timestamp, reverse = True): stable
RECURSIVE SortByTimestamp(_, _, _)
SortByTimestamp(refs, heap, sorted) ==
    IF refs = <<>>
    THEN sorted
    ELSE SortByTimestamp(Tail(refs), heap, InsertByTimestamp(sorted, heap, Head(refs)))

Involves(tx, address) ==
    tx.sender_address = address \/ tx.recipient_address = address

\* Mutant of get_transaction_history: the pending queue is left out.
get_transaction_history_ChainOnly(ch, pending, heap, address, limit) ==
    LET transactions ==
            SortByTimestamp(SelectSeq(ChainRefs(ch),
                                      LAMBDA ref : Involves(heap[ref], address)),
                            heap, <<>>)
    IN  IF limit > 0
        THEN SubSeq(transactions, 1,
                    IF limit < Len(transactions) THEN limit ELSE Len(transactions))
        ELSE transactions

get_transaction_history(ch, pending, heap, address, limit) ==
    LET transactions ==
            SortByTimestamp(SelectSeq(ChainRefs(ch) \o pending,
                                      LAMBDA ref : Involves(heap[ref], address)),
                            heap, <<>>)
    IN  IF limit > 0
        THEN SubSeq(transactions, 1,
                    IF limit < Len(transactions) THEN limit ELSE Len(transactions))
        ELSE transactions

\* the first entry of refs with the id, 0 when there is none
FirstWithId(refs, heap, transaction_id) ==
    LET hits == {i \in 1..Len(refs) : heap[refs[i]].transaction_id = transaction_id}
    IN  IF hits = {} THEN 0 ELSE refs[CHOOSE j \in hits : \A m \in hits : j <= m]

\* Mutant of search_transaction: the pending queue is searched first.
search_transaction_PendingFirst(ch, pending, heap, transaction_id) ==
    IF FirstWithId(pending, heap, transaction_id) # 0
    THEN <<FirstWithId(pending, heap, transaction_id), "pending">>
    ELSE IF FirstWithId(ChainRefs(ch), heap, transaction_id) # 0
    THEN <<FirstWithId(ChainRefs(ch), heap, transaction_id), "confirmed">>
    ELSE <<0, "not_found">>

search_transaction(ch, pending, heap, transaction_id) ==
    IF FirstWithId(ChainRefs(ch), heap, transaction_id) # 0
    THEN <<FirstWithId(ChainRefs(ch), heap, transaction_id), "confirmed">>
    ELSE IF FirstWithId(pending, heap, transaction_id) # 0
    THEN <<FirstWithId(pending, heap, transaction_id), "pending">>
    ELSE <<0, "not_found">>

\* ------------------------------------------------------------------ Wallet
\* A key or an address that is None.
NoKey == "None"

\* Wallet.__init__; file is what the file named wallet_file holds.
Wallet ==
    [private_key |-> NoKey,
     public_key |-> None,
     address |-> NoKey,
     is_unlocked |-> FALSE,
     file |-> None]

\* private_key.to_string().hex()
private_key_to_hex(private_key) == <<"hex", private_key>>

\* Whether SigningKey.from_string(bytes.fromhex(hex_string)) yields a key.
IsKeyHex(hex_string) == hex_string[1] = "hex" /\ hex_string[2] \in Keys

private_key_from_hex(hex_string) == hex_string[2]

generate_new_wallet(w, private_key) ==
    [w EXCEPT !.private_key = private_key,
              !.public_key = get_public_key(private_key),
              !.address = create_address(get_public_key(private_key)),
              !.is_unlocked = TRUE]

import_wallet(w, private_key_hex) ==
    IF ~IsKeyHex(private_key_hex)
    THEN [error |-> "Failed to create private key from hex", w |-> w]
    ELSE [error |-> "",
          w |-> generate_new_wallet(w, private_key_from_hex(private_key_hex))]

\* Fernet under the key derived from the password
encrypt_data(data, password) == <<"fernet", password, data>>

CanDecrypt(encrypted_data, password) == encrypted_data[2] = password

decrypt_data(encrypted_data, password) == encrypted_data[3]

save_wallet(w, password) ==
    IF w.private_key = NoKey
    THEN [error |-> "No wallet to save", w |-> w]
    ELSE [error |-> "",
          w |-> [w EXCEPT !.file =
                    encrypt_data([address |-> w.address,
                                  private_key |-> private_key_to_hex(w.private_key)],
                                 password)]]

load_wallet(w, password) ==
    IF w.file = None
    THEN [error |-> "Wallet file not found", w |-> w]
    ELSE IF ~CanDecrypt(w.file, password)
    THEN [error |-> "Failed to decrypt data", w |-> w]
    ELSE import_wallet(w, decrypt_data(w.file, password).private_key)

\* Mutant of lock_wallet: the address is cleared with the keys.
lock_wallet_ClearsAddress(w) ==
    [w EXCEPT !.private_key = NoKey, !.public_key = None, !.address = NoKey,
              !.is_unlocked = FALSE]

lock_wallet(w) ==
    [w EXCEPT !.private_key = NoKey, !.public_key = None, !.is_unlocked = FALSE]

\* Wallet.get_balance
Wallet_get_balance(w, st) ==
    IF w.address = NoKey
    THEN [error |-> "No wallet address available", value |-> F(0)]
    ELSE [error |-> "", value |-> get_balance(st.chain, st.txs, w.address)]

\* Wallet.send_transaction; the new Transaction is put at the end of the heap.
send_transaction(w, st, recipient_address, amount, fee, time, k) ==
    IF ~w.is_unlocked
    THEN [error |-> "Wallet is locked", st |-> st]
    ELSE IF w.address = NoKey
    THEN [error |-> "No wallet address available", st |-> st]
    ELSE IF FLess(Wallet_get_balance(w, st).value, FAdd(amount, fee))
    THEN [error |-> "Insufficient balance", st |-> st]
    ELSE LET transaction ==
                 sign_transaction(Transaction(w.address, recipient_address,
                                              amount, fee, "", time),
                                  w.private_key, k)
             added == add_transaction([st EXCEPT !.txs = Append(@, transaction)],
                                      Len(st.txs) + 1)
         IN  IF added.error # ""
             THEN [error |-> added.error, st |-> st]
             ELSE [error |-> "", st |-> added.st]

\* Wallet.get_transaction_history
Wallet_get_transaction_history(w, st, limit) ==
    IF w.address = NoKey
    THEN [error |-> "No wallet address available", value |-> <<>>]
    ELSE [error |-> "",
          value |-> get_transaction_history(st.chain, st.pending_transactions,
                                            st.txs, w.address, limit)]

\* Wallet.mine_block
Wallet_mine_block(w, st, time) ==
    IF w.address = NoKey
    THEN [error |-> "No wallet address available", result |-> FALSE, st |-> st]
    ELSE LET r == mine_pending_transactions(st, w.address, time)
         IN  [error |-> "", result |-> r.result, st |-> r.st]

\* -------------------------------------------------------------- operations
ledger == <<chain, pending_transactions, transaction_pool>>

State ==
    [chain |-> chain,
     pending_transactions |-> pending_transactions,
     transaction_pool |-> transaction_pool,
     txs |-> txs]

Install(st) ==
    /\ chain' = st.chain
    /\ pending_transactions' = st.pending_transactions
    /\ transaction_pool' = st.transaction_pool
    /\ txs' = st.txs

\* The callers: two that submit transactions and one that mines.
Submitters == {"t1", "t2"}
Callers == Submitters \cup {"m"}

\* The frame of a caller that is in no call.
Idle == [pc |-> "idle", ref |-> 0, block |-> None, i |-> 0, difficulty |-> 0]

Init ==
    /\ calls = [c \in Callers |-> Idle]
    /\ wallet = Wallet
    /\ txs = <<>>
    /\ chain = <<create_genesis_block(0)>>
    /\ pending_transactions = <<>>
    /\ transaction_pool = TransactionPool
    /\ now = 0
    /\ last = [op |-> "__init__", result |-> ""]

\* Transaction objects made by callers (rewards are made by mining).
UserTxs == {r \in DOMAIN txs : txs[r].signature # <<"system_signature">>}

NewTransaction(inp, time) ==
    LET tx == Transaction(inp.sender, inp.recipient, inp.amount, inp.fee, "", time)
    IN  IF inp.signer = "unsigned" THEN tx ELSE sign_transaction(tx, inp.signer, inp.k)

Referenced(st, ref) ==
    \/ \E i \in 1..Len(st.pending_transactions) : st.pending_transactions[i] = ref
    \/ \E i \in 1..Len(st.transaction_pool.transactions) :
           st.transaction_pool.transactions[i] = ref
    \/ \E i \in 1..Len(st.transaction_pool.confirmed_transactions) :
           st.transaction_pool.confirmed_transactions[i] = ref

\* An object nothing refers to after the call is dropped from the heap.
Collect(st, ref) ==
    IF Referenced(st, ref) THEN st ELSE [st EXCEPT !.txs = SubSeq(@, 1, ref - 1)]

\* What add_transaction hands its caller: True, or the exception it raised.
Returned(r) == IF r.error = "" THEN "True" ELSE r.error

\* A caller builds a transaction, signs it (or not) and submits it.
AddNewTransaction(inp) ==
    /\ Cardinality(UserTxs) < MaxTx
    /\ LET ref == Len(txs) + 1
           r == add_transaction([State EXCEPT !.txs = Append(txs, NewTransaction(inp, now))],
                                ref)
       IN  /\ Install(Collect(r.st, ref))
           /\ last' = [op |-> "add_transaction", result |-> Returned(r)]
    /\ UNCHANGED <<now, wallet, calls>>

\* A caller submits an object it already holds.
AddKnownTransaction(ref) ==
    /\ LET r == add_transaction(State, ref)
       IN  /\ Install(r.st)
           /\ last' = [op |-> "add_transaction", result |-> Returned(r)]
    /\ UNCHANGED <<now, wallet, calls>>

MinePendingTransactions(address) ==
    /\ pending_transactions = <<>> \/ Len(chain) <= MaxBlocks
    /\ LET r == mine_pending_transactions(State, address, now)
       IN  /\ Install(r.st)
           /\ last' = [op |-> "mine_pending_transactions",
                       result |-> IF r.result THEN "True" ELSE "False"]
    /\ UNCHANGED <<now, wallet, calls>>

Tick ==
    /\ now < MaxTime
    /\ now' = now + 1
    /\ UNCHANGED <<txs, ledger, last, calls, wallet>>

Next ==
    \/ \E inp \in TxInputs : AddNewTransaction(inp)
    \/ \E ref \in DOMAIN txs : AddKnownTransaction(ref)
    \/ \E address \in Miners : MinePendingTransactions(address)
    \/ Tick

Spec == Init /\ [][Next]_vars

\* ------------------------------------------- transactions, driven directly
\* A caller builds a Transaction, signs it, changes it, asks is_valid and
\* verify_signature, and hands it to the pool or to the ledger; a second,
\* well-formed transaction is there to be queued before or after it.  The
\* caller edits a transaction only while it has not been handed over.
TxSenders == {"", "A1", "A2"}
TxRecipients == {"", "A2"}
TxAmounts == {NaN, F(0), F(8)}
TxFees == {F(0 - 1), F(0)}
TxMessages == {"", "x"}
TxTimestamps == {0, 1}
TxSignatures == {None, <<"not hex">>}
Nonces == {1, 2}
SigningKeys == {"K1"}

Companion == sign_transaction(Transaction("A1", "A2", NaN, F(0), "", 0), "K1", 1)

Drafts == {1}

InitTx ==
    /\ calls = [c \in Callers |-> Idle]
    /\ wallet = Wallet
    /\ \E s \in TxSenders, r \in TxRecipients, a \in TxAmounts, f \in TxFees,
          sig \in TxSignatures :
           txs = <<[Transaction(s, r, a, f, "", 0) EXCEPT !.signature = sig],
                   Companion>>
    /\ chain = <<create_genesis_block(0)>>
    /\ pending_transactions = <<>>
    /\ transaction_pool = TransactionPool
    /\ now = 0
    /\ last = [op |-> "__init__", result |-> ""]

SignTransaction(ref, private_key, k) ==
    /\ ref \in Drafts
    /\ ~Referenced(State, ref)
    /\ txs' = [txs EXCEPT ![ref] = sign_transaction(@, private_key, k)]
    /\ last' = [op |-> "sign_transaction", result |-> "True"]
    /\ UNCHANGED <<ledger, now, wallet, calls>>

\* tx with one of the fields that are signed set to another value
SignedFieldChanges(tx) ==
    {[tx EXCEPT !.sender_address = v] : v \in TxSenders \ {tx.sender_address}}
    \cup {[tx EXCEPT !.recipient_address = v] :
             v \in TxRecipients \ {tx.recipient_address}}
    \cup {[tx EXCEPT !.amount = v] : v \in TxAmounts \ {tx.amount}}
    \cup {[tx EXCEPT !.fee = v] : v \in TxFees \ {tx.fee}}
    \cup {[tx EXCEPT !.message = v] : v \in TxMessages \ {tx.message}}
    \cup {[tx EXCEPT !.timestamp = v] : v \in TxTimestamps \ {tx.timestamp}}

SignedAndUnchanged(tx) ==
    /\ tx.transaction_id # None
    /\ tx.transaction_id = Transaction_calculate_hash(tx)

\* tx.<field> = value, on a transaction as it was signed
SetAttr(ref, changed) ==
    /\ ref \in Drafts
    /\ ~Referenced(State, ref)
    /\ SignedAndUnchanged(txs[ref])
    /\ changed \in SignedFieldChanges(txs[ref])
    /\ txs' = [txs EXCEPT ![ref] = changed]
    /\ last' = [op |-> "setattr", result |-> "None"]
    /\ UNCHANGED <<ledger, now, wallet, calls>>

IsValid(ref) ==
    /\ ref \in Drafts
    /\ last' = [op |-> "is_valid", result |-> is_valid(txs[ref])[2]]
    /\ UNCHANGED <<txs, ledger, now, wallet, calls>>

VerifySignature(ref, private_key) ==
    /\ ref \in Drafts
    /\ last' = [op |-> "verify_signature",
                result |-> IF verify_signature(txs[ref], get_public_key(private_key))
                           THEN "True"
                           ELSE "False"]
    /\ UNCHANGED <<txs, ledger, now, wallet, calls>>

\* TransactionPool.add_transaction, called on the pool itself
PoolAddTransaction(ref) ==
    /\ LET r == TransactionPool_add_transaction(transaction_pool, txs, ref)
       IN  /\ transaction_pool' = r.pool
           /\ last' = [op |-> "pool.add_transaction", result |-> Returned(r)]
    /\ UNCHANGED <<txs, chain, pending_transactions, now, wallet, calls>>

NextTx ==
    \/ \E ref \in DOMAIN txs, private_key \in SigningKeys, k \in Nonces :
           SignTransaction(ref, private_key, k)
    \/ \E ref \in DOMAIN txs : \E changed \in SignedFieldChanges(txs[ref]) :
           SetAttr(ref, changed)
    \/ \E ref \in DOMAIN txs : IsValid(ref)
    \/ \E ref \in DOMAIN txs, private_key \in Keys : VerifySignature(ref, private_key)
    \/ \E ref \in DOMAIN txs : PoolAddTransaction(ref)
    \/ \E ref \in DOMAIN txs : AddKnownTransaction(ref)

SpecTx == InitTx /\ [][NextTx]_vars

\* --------------------------------------------------- the pool, on its own
\* Three signed transactions, the third with the payload and so the id of
\* the first, are added to a pool and confirmed in it, in any order.
MaxConfirmed == 3

PoolTransactions ==
    <<Companion,
      sign_transaction(Transaction("A2", "A1", F(8), F(0), "x", 1), "K2", 1),
      sign_transaction(Transaction("A1", "A2", NaN, F(0), "", 0), "K1", 2)>>

PoolIds ==
    {PoolTransactions[ref].transaction_id : ref \in DOMAIN PoolTransactions}
    \cup {<<"unknown">>}

InitPool ==
    /\ calls = [c \in Callers |-> Idle]
    /\ wallet = Wallet
    /\ txs = PoolTransactions
    /\ chain = <<create_genesis_block(0)>>
    /\ pending_transactions = <<>>
    /\ transaction_pool = TransactionPool
    /\ now = 0
    /\ last = [op |-> "__init__", result |-> ""]

PoolConfirmTransaction(transaction_id) ==
    /\ Len(transaction_pool.confirmed_transactions) < MaxConfirmed
    /\ LET c == confirm_transaction(transaction_pool, txs, transaction_id)
       IN  /\ transaction_pool' = c.pool
           /\ txs' = c.heap
           /\ last' = [op |-> "pool.confirm_transaction",
                       result |-> IF c.found THEN "True" ELSE "False"]
    /\ UNCHANGED <<chain, pending_transactions, now, wallet, calls>>

NextPool ==
    \/ \E ref \in DOMAIN txs : PoolAddTransaction(ref)
    \/ \E transaction_id \in PoolIds : PoolConfirmTransaction(transaction_id)

SpecPool == InitPool /\ [][NextPool]_vars

\* ------------------------------------------------ validation, on its own
\* is_chain_valid is given chains of up to three blocks that are sound or
\* broken in one or more ways: a block hashed before the status of its
\* transaction was set, a wrong link, a block that was not mined, a genesis
\* block changed after it was hashed.
Statuses == {"pending", "confirmed"}

BuiltBlock(index, transactions, previous_hash, mined) ==
    LET new_block == Block(index, transactions, previous_hash, 0, <<Companion>>)
    IN  IF mined THEN mine_block(new_block, <<Companion>>, difficulty) ELSE new_block

GenesisBlocks ==
    {create_genesis_block(0), [create_genesis_block(0) EXCEPT !.nonce = 1]}

\* The chains that are ch with one more block.
Extended(ch) ==
    {Append(ch, BuiltBlock(Len(ch), transactions, previous_hash, mined)) :
        transactions \in {<<>>, <<1>>},
        previous_hash \in {ch[Len(ch)].hash, <<"0">>},
        mined \in BOOLEAN}

Chains ==
    LET one == {<<g>> : g \in GenesisBlocks}
        two == UNION {Extended(ch) : ch \in one}
        three == UNION {Extended(ch) : ch \in two}
    IN  one \cup two \cup three

InitChain ==
    /\ calls = [c \in Callers |-> Idle]
    /\ wallet = Wallet
    /\ \E status \in Statuses : txs = <<[Companion EXCEPT !.status = status]>>
    /\ chain \in Chains
    /\ pending_transactions = <<>>
    /\ transaction_pool = TransactionPool
    /\ now = 0
    /\ last = [op |-> "__init__", result |-> "", block |-> 0]

IsChainValid ==
    /\ last' = [op |-> "is_chain_valid",
                result |-> is_chain_valid(chain, txs)[2],
                block |-> is_chain_valid(chain, txs)[3]]
    /\ UNCHANGED <<txs, ledger, now, wallet, calls>>

NextChain == IsChainValid

SpecChain == InitChain /\ [][NextChain]_vars

\* ------------------------------------------------------ calls that overlap
\* The web application serves its requests on threads that share one
\* Blockchain, and nothing in it takes a lock: a call of add_transaction or
\* of mine_pending_transactions runs statement by statement, and the
\* statements of the calls in progress interleave.  A call of
\* mine_pending_transactions can be interrupted where it stands.
MaxPending == 2
MaxMined == 1

ThreadTransactions ==
    <<Companion,
      sign_transaction(Transaction("A2", "A1", NaN, F(0), "", 0), "K2", 1)>>

InitThreads ==
    /\ calls = [c \in Callers |-> Idle]
    /\ wallet = Wallet
    /\ txs = ThreadTransactions
    /\ chain = <<create_genesis_block(0)>>
    /\ pending_transactions = <<>>
    /\ transaction_pool = TransactionPool
    /\ now = 0
    /\ last = [op |-> "__init__", result |-> ""]

Raise(c, op, error) ==
    /\ calls' = [calls EXCEPT ![c] = Idle]
    /\ last' = [op |-> op, result |-> error]

Goto(c, pc) == calls' = [calls EXCEPT ![c].pc = pc]

\* add_transaction: is_valid and the balance of the sender
AddCheck(t, ref) ==
    /\ calls[t].pc = "idle"
    /\ Len(pending_transactions) < MaxPending
    /\ IF ~is_valid(txs[ref])[1]
       THEN Raise(t, "add_transaction", "Invalid transaction")
       ELSE IF InsufficientBalance(get_balance(chain, txs, txs[ref].sender_address),
                                   FAdd(txs[ref].amount, txs[ref].fee))
       THEN Raise(t, "add_transaction", "Insufficient balance")
       ELSE calls' = [calls EXCEPT ![t] = [Idle EXCEPT !.pc = "pool_check",
                                                       !.ref = ref]]
            /\ UNCHANGED last
    /\ UNCHANGED <<txs, ledger, now, wallet>>

\* TransactionPool.add_transaction: is_valid and the search for the id
PoolCheck(t) ==
    /\ calls[t].pc = "pool_check"
    /\ LET r == TransactionPool_add_transaction(transaction_pool, txs, calls[t].ref)
       IN  IF r.error # ""
           THEN Raise(t, "add_transaction", r.error)
           ELSE Goto(t, "pool_append") /\ UNCHANGED last
    /\ UNCHANGED <<txs, ledger, now, wallet>>

\* self.transactions.append(transaction)
PoolAppend(t) ==
    /\ calls[t].pc = "pool_append"
    /\ transaction_pool' = [transaction_pool EXCEPT
                               !.transactions = Append(@, calls[t].ref)]
    /\ Goto(t, "pending_append")
    /\ UNCHANGED <<txs, chain, pending_transactions, now, wallet, last>>

\* self.pending_transactions.append(transaction); return True
PendingAppend(t) ==
    /\ calls[t].pc = "pending_append"
    /\ pending_transactions' = Append(pending_transactions, calls[t].ref)
    /\ Raise(t, "add_transaction", "True")
    /\ UNCHANGED <<txs, chain, transaction_pool, now, wallet>>

\* mine_pending_transactions up to the new Block
MineStart(address) ==
    /\ calls["m"].pc = "idle"
    /\ pending_transactions = <<>> \/ Len(chain) <= MaxMined
    /\ IF pending_transactions = <<>>
       THEN /\ Raise("m", "mine_pending_transactions", "False")
            /\ UNCHANGED txs
       ELSE LET heap1 == Append(txs, RewardTransaction(address, now))
                new_block == Block(Len(chain),
                                   TransactionsToMine(pending_transactions, Len(heap1)),
                                   get_latest_block(chain).hash, now, heap1)
            IN  /\ txs' = heap1
                /\ calls' = [calls EXCEPT !["m"] =
                                 [Idle EXCEPT !.pc = "mine_block",
                                              !.block = new_block,
                                              !.difficulty = difficulty]]
                /\ UNCHANGED last
    /\ UNCHANGED <<ledger, now, wallet>>

\* new_block.mine_block(self.difficulty), the whole search
ProofOfWork ==
    /\ calls["m"].pc = "mine_block"
    /\ calls' = [calls EXCEPT !["m"].pc = "append",
                              !["m"].block = mine_block(@, txs, calls["m"].difficulty)]
    /\ UNCHANGED <<txs, ledger, now, wallet, last>>

\* self.chain.append(new_block)
ChainAppend ==
    /\ calls["m"].pc = "append"
    /\ chain' = Append(chain, calls["m"].block)
    /\ calls' = [calls EXCEPT !["m"].pc = "confirm", !["m"].i = 1]
    /\ UNCHANGED <<txs, pending_transactions, transaction_pool, now, wallet, last>>

\* one turn of: for tx in self.pending_transactions: confirm_transaction
ConfirmNext ==
    /\ calls["m"].pc = "confirm"
    /\ calls["m"].i <= Len(pending_transactions)
    /\ LET c == confirm_transaction(transaction_pool, txs,
                     txs[pending_transactions[calls["m"].i]].transaction_id)
       IN  /\ transaction_pool' = c.pool
           /\ txs' = c.heap
    /\ calls' = [calls EXCEPT !["m"].i = @ + 1]
    /\ UNCHANGED <<chain, pending_transactions, now, wallet, last>>

\* the end of the loop; self.pending_transactions = []; return True
ClearPending ==
    /\ calls["m"].pc = "confirm"
    /\ calls["m"].i > Len(pending_transactions)
    /\ pending_transactions' = <<>>
    /\ Raise("m", "mine_pending_transactions", "True")
    /\ UNCHANGED <<txs, chain, transaction_pool, now, wallet>>

\* The call is interrupted (KeyboardInterrupt is no Exception and is not
\* caught); a reward transaction that no block holds goes with the frame.
Interrupt ==
    /\ calls["m"].pc # "idle"
    /\ Raise("m", "mine_pending_transactions", "KeyboardInterrupt")
    /\ txs' = IF calls["m"].pc = "confirm" THEN txs ELSE SubSeq(txs, 1, Len(txs) - 1)
    /\ UNCHANGED <<ledger, now, wallet>>

NextThreads ==
    \/ \E t \in Submitters, ref \in DOMAIN ThreadTransactions : AddCheck(t, ref)
    \/ \E t \in Submitters : PoolCheck(t)
    \/ \E t \in Submitters : PoolAppend(t)
    \/ \E t \in Submitters : PendingAppend(t)
    \/ \E address \in Miners : MineStart(address)
    \/ ProofOfWork
    \/ ChainAppend
    \/ ConfirmNext
    \/ ClearPending
    \/ Interrupt

SpecThreads == InitThreads /\ [][NextThreads]_vars

\* ------------------------------------------------- proof of work, by steps
\* Block.mine_block runs one turn of its while loop at a time on a block
\* that was just constructed or that an earlier call has mined.  The loop
\* is running code: a turn that can be taken is taken.  The digest of the
\* model has two hex digits and a period of 32 nonces, so a target of three
\* zeros stands for one that no nonce reaches.
MaxNonce == 40
MaxDifficulty == 3

\* Mutant of mine_block_step: the hash is not computed again.
mine_block_step_NoRehash(block, heap) == [block EXCEPT !.nonce = @ + 1]

\* self.nonce += 1; self.hash = self.calculate_hash()
mine_block_step(block, heap) ==
    LET stepped == [block EXCEPT !.nonce = @ + 1]
    IN  [stepped EXCEPT !.hash = Block_calculate_hash(stepped, heap)]

\* self.hash[:difficulty] != target
mine_block_test(block, d) == HexPrefix(block.hash, d) # Zeros(d)

InitMine ==
    /\ \E index \in 0..MaxBlocks, time \in 0..MaxTime,
          transactions \in {<<>>, <<1>>},
          previous_hash \in {<<"0">>, create_genesis_block(0).hash} :
            calls = [c \in Callers |->
                        IF c = "m"
                        THEN [Idle EXCEPT !.block = Block(index, transactions,
                                                          previous_hash, time,
                                                          <<Companion>>)]
                        ELSE Idle]
    /\ wallet = Wallet
    /\ txs = <<Companion>>
    /\ chain = <<create_genesis_block(0)>>
    /\ pending_transactions = <<>>
    /\ transaction_pool = TransactionPool
    /\ now = 0
    /\ last = [op |-> "Block", result |-> "", block |-> None]

\* block.mine_block(d) is called; last.block keeps the block as it was.
MineBlockCall(d) ==
    /\ calls["m"].pc = "idle"
    /\ calls' = [calls EXCEPT !["m"].pc = "mine_block", !["m"].difficulty = d]
    /\ last' = [op |-> "mine_block", result |-> "", block |-> calls["m"].block]
    /\ UNCHANGED <<txs, ledger, now, wallet>>

\* one turn of the loop
MineBlockStep ==
    /\ calls["m"].pc = "mine_block"
    /\ mine_block_test(calls["m"].block, calls["m"].difficulty)
    /\ calls["m"].block.nonce < MaxNonce
    /\ calls' = [calls EXCEPT !["m"].block = mine_block_step(@, txs)]
    /\ UNCHANGED <<txs, ledger, now, wallet, last>>

\* the loop test fails and the call returns
MineBlockReturn ==
    /\ calls["m"].pc = "mine_block"
    /\ ~mine_block_test(calls["m"].block, calls["m"].difficulty)
    /\ calls' = [calls EXCEPT !["m"].pc = "idle"]
    /\ last' = [last EXCEPT !.result = "None"]
    /\ UNCHANGED <<txs, ledger, now, wallet>>

NextMine ==
    \/ \E d \in 0..MaxDifficulty : MineBlockCall(d)
    \/ MineBlockStep
    \/ MineBlockReturn

SpecMine ==
    /\ InitMine
    /\ [][NextMine]_vars
    /\ WF_vars(MineBlockStep)
    /\ WF_vars(MineBlockReturn)

\* ------------------------------------------------ spending, on its own
\* Three signed transactions are submitted and mined in any order by either
\* address: one of amount NaN from A2, which is what a fresh chain admits,
\* and two from A1 that each take all that one mining reward pays.
FundsTransactions ==
    <<sign_transaction(Transaction("A2", "system", NaN, F(0), "", 0), "K2", 1),
      sign_transaction(Transaction("A1", "A2", F(8), F(2), "", 0), "K1", 1),
      sign_transaction(Transaction("A1", "A2", F(8), F(2), "x", 0), "K1", 2)>>

InitFunds ==
    /\ calls = [c \in Callers |-> Idle]
    /\ wallet = Wallet
    /\ txs = FundsTransactions
    /\ chain = <<create_genesis_block(0)>>
    /\ pending_transactions = <<>>
    /\ transaction_pool = TransactionPool
    /\ now = 0
    /\ last = [op |-> "__init__", result |-> ""]

NextFunds ==
    \/ \E ref \in DOMAIN FundsTransactions : AddKnownTransaction(ref)
    \/ \E address \in Addresses : MinePendingTransactions(address)

SpecFunds == InitFunds /\ [][NextFunds]_vars

\* ---------------------------------------------------- the wallet, in use
\* One Wallet over one Blockchain: keys are generated, imported, saved under
\* a password, loaded and cleared, and the wallet sends, mines and reports.
KeyHexes == {private_key_to_hex(k) : k \in Keys} \cup {<<"zz">>}
Passwords == {"p", "q"}

InitWallet ==
    /\ calls = [c \in Callers |-> Idle]
    /\ wallet = Wallet
    /\ txs = <<>>
    /\ chain = <<create_genesis_block(0)>>
    /\ pending_transactions = <<>>
    /\ transaction_pool = TransactionPool
    /\ now = 0
    /\ last = [op |-> "__init__", result |-> "", value |-> F(0)]

\* What a call of the wallet hands its caller: ok is returned when no
\* exception was raised, the text of the exception otherwise.
Outcome(op, error, ok, value) ==
    [op |-> op, result |-> IF error = "" THEN ok ELSE error, value |-> value]

GenerateNewWallet(private_key) ==
    /\ wallet' = generate_new_wallet(wallet, private_key)
    /\ last' = Outcome("generate_new_wallet", "", "True", F(0))
    /\ UNCHANGED <<txs, ledger, now, calls>>

ImportWallet(private_key_hex) ==
    /\ LET r == import_wallet(wallet, private_key_hex)
       IN  /\ wallet' = r.w
           /\ last' = Outcome("import_wallet", r.error, "True", F(0))
    /\ UNCHANGED <<txs, ledger, now, calls>>

SaveWallet(password) ==
    /\ LET r == save_wallet(wallet, password)
       IN  /\ wallet' = r.w
           /\ last' = Outcome("save_wallet", r.error, "True", F(0))
    /\ UNCHANGED <<txs, ledger, now, calls>>

LoadWallet(password) ==
    /\ LET r == load_wallet(wallet, password)
       IN  /\ wallet' = r.w
           /\ last' = Outcome("load_wallet", r.error, "True", F(0))
    /\ UNCHANGED <<txs, ledger, now, calls>>

LockWallet ==
    /\ wallet' = lock_wallet(wallet)
    /\ last' = Outcome("lock_wallet", "", "None", F(0))
    /\ UNCHANGED <<txs, ledger, now, calls>>

WalletGetBalance ==
    /\ LET r == Wallet_get_balance(wallet, State)
       IN  last' = Outcome("get_balance", r.error, "float", r.value)
    /\ UNCHANGED <<txs, ledger, now, calls, wallet>>

WalletSendTransaction(recipient_address, amount, fee) ==
    /\ Cardinality(UserTxs) < MaxTx
    /\ LET r == send_transaction(wallet, State, recipient_address, amount, fee, now, 1)
       IN  /\ Install(r.st)
           /\ last' = Outcome("send_transaction", r.error, "Transaction", F(0))
    /\ UNCHANGED <<now, calls, wallet>>

WalletGetTransactionHistory ==
    /\ LET r == Wallet_get_transaction_history(wallet, State, 10)
       IN  last' = Outcome("get_transaction_history", r.error, "list", F(0))
    /\ UNCHANGED <<txs, ledger, now, calls, wallet>>

WalletMineBlock ==
    /\ pending_transactions = <<>> \/ Len(chain) <= MaxBlocks
    /\ LET r == Wallet_mine_block(wallet, State, now)
       IN  /\ Install(r.st)
           /\ last' = Outcome("mine_block", r.error,
                              IF r.result THEN "True" ELSE "False", F(0))
    /\ UNCHANGED <<now, calls, wallet>>

NextWallet ==
    \/ \E private_key \in Keys : GenerateNewWallet(private_key)
    \/ \E private_key_hex \in KeyHexes : ImportWallet(private_key_hex)
    \/ \E password \in Passwords : SaveWallet(password)
    \/ \E password \in Passwords : LoadWallet(password)
    \/ LockWallet
    \/ WalletGetBalance
    \/ \E recipient_address \in Addresses, amount \in Amounts, fee \in Fees :
           WalletSendTransaction(recipient_address, amount, fee)
    \/ WalletGetTransactionHistory
    \/ WalletMineBlock

SpecWallet == InitWallet /\ [][NextWallet]_vars

\* ------------------------------------------------ addresses, byte by byte
\* create_address and is_address_valid on bytes and Base58 text.  Bytes are
\* numbers 0..255 and a text is the sequence of its characters' places in
\* the Base58 alphabet, 58 standing for a character that is not in it.
\* Base58 is computed as the base58 package does; SHA-256 and RIPEMD-160 are
\* stand-ins of the right widths in which every byte of the input counts.
MaxCut == 9
NotBase58 == 58

RECURSIVE WeightedSum(_, _)
WeightedSum(bytes, i) ==
    IF bytes = <<>>
    THEN 0
    ELSE bytes[Len(bytes)] * (Len(bytes) + i)
         + WeightedSum(SubSeq(bytes, 1, Len(bytes) - 1), i)

\* hashlib.sha256(bytes).digest()
sha256(bytes) ==
    [i \in 1..32 |-> (WeightedSum(bytes, i) + 7 * i * i + Len(bytes)) % 251]

\* hashlib.new('ripemd160'); update(bytes); digest()
ripemd160(bytes) ==
    [i \in 1..20 |-> (WeightedSum(bytes, 3 * i + 1) + 13 * i + 5) % 251]

\* public_key.to_string(): 64 bytes
public_key_bytes(public_key) ==
    [i \in 1..64 |-> ((IF public_key[2] = "K1" THEN 7 ELSE 11) * i + 3) % 256]

\* bytes, read as a number, times m plus c
RECURSIVE MulAdd(_, _, _)
MulAdd(bytes, m, c) ==
    IF bytes = <<>>
    THEN IF c = 0 THEN <<>> ELSE <<c>>
    ELSE LET v == bytes[Len(bytes)] * m + c
         IN  Append(MulAdd(SubSeq(bytes, 1, Len(bytes) - 1), m, v \div 256), v % 256)

\* bytes, read as a number, divided by m: quotient and remainder
RECURSIVE DivMod(_, _, _)
DivMod(bytes, m, rem) ==
    IF bytes = <<>>
    THEN [q |-> <<>>, r |-> rem]
    ELSE LET cur == rem * 256 + Head(bytes)
             rest == DivMod(Tail(bytes), m, cur % m)
         IN  [q |-> <<cur \div m>> \o rest.q, r |-> rest.r]

\* v.lstrip(zero)
RECURSIVE lstrip(_, _)
lstrip(v, zero) ==
    IF v # <<>> /\ Head(v) = zero THEN lstrip(Tail(v), zero) ELSE v

RECURSIVE b58encode_int(_)
b58encode_int(bytes) ==
    IF bytes = <<>>
    THEN <<>>
    ELSE LET d == DivMod(bytes, 58, 0)
         IN  Append(b58encode_int(lstrip(d.q, 0)), d.r)

\* base58.b58encode
b58encode(v) ==
    LET stripped == lstrip(v, 0)
    IN  [i \in 1..(Len(v) - Len(stripped)) |-> 0] \o b58encode_int(stripped)

RECURSIVE b58decode_int(_)
b58decode_int(text) ==
    IF text = <<>>
    THEN <<>>
    ELSE MulAdd(b58decode_int(SubSeq(text, 1, Len(text) - 1)), 58, text[Len(text)])

\* Whether base58.b58decode raises.
IsBase58(text) == \A i \in 1..Len(text) : text[i] < NotBase58

\* base58.b58decode
b58decode(text) ==
    LET stripped == lstrip(text, 0)
    IN  [i \in 1..(Len(text) - Len(stripped)) |-> 0] \o b58decode_int(stripped)

\* sha256(sha256(payload))[:4]
Checksum(payload) == SubSeq(sha256(sha256(payload)), 1, 4)

\* CryptoUtils.create_address, on bytes
CryptoUtils_create_address(public_key) ==
    LET sha256_hash == sha256(public_key_bytes(public_key))
        hash160 == ripemd160(sha256_hash)
        versioned_payload == <<0>> \o hash160
        checksum == Checksum(versioned_payload)
        binary_address == versioned_payload \o checksum
    IN  b58encode(binary_address)

\* Wallet.is_address_valid
is_address_valid(address) ==
    IF address = <<>> \/ Len(address) < 26 \/ Len(address) > 35
    THEN FALSE
    ELSE IF ~IsBase58(address)
    THEN FALSE
    ELSE Len(b58decode(address)) = 25

\* The texts is_address_valid is asked about: the addresses of the keys,
\* each of them with one character changed, cut short or with characters
\* added, and the empty text.
AddressTexts ==
    LET made == {CryptoUtils_create_address(get_public_key(k)) : k \in Keys}
    IN  made
        \cup {[a EXCEPT ![p] = c] : a \in made, p \in 1..33, c \in {0, 33, NotBase58}}
        \cup {SubSeq(a, 1, Len(a) - n) : a \in made, n \in 1..MaxCut}
        \cup {a \o [i \in 1..n |-> 1] : a \in made, n \in 1..2}
        \cup {<<>>}

InitAddress ==
    /\ calls = [c \in Callers |-> Idle]
    /\ wallet = Wallet
    /\ txs = <<>>
    /\ chain = <<create_genesis_block(0)>>
    /\ pending_transactions = <<>>
    /\ transaction_pool = TransactionPool
    /\ now = 0
    /\ last = [op |-> "__init__", address |-> <<>>, result |-> ""]

CreateAddress(private_key) ==
    /\ last' = [op |-> "create_address",
                address |-> CryptoUtils_create_address(get_public_key(private_key)),
                result |-> "str"]
    /\ UNCHANGED <<txs, ledger, now, calls, wallet>>

IsAddressValid(address) ==
    /\ last' = [op |-> "is_address_valid",
                address |-> address,
                result |-> IF is_address_valid(address) THEN "True" ELSE "False"]
    /\ UNCHANGED <<txs, ledger, now, calls, wallet>>

NextAddress ==
    \/ \E private_key \in Keys : CreateAddress(private_key)
    \/ \E address \in AddressTexts : IsAddressValid(address)

SpecAddress == InitAddress /\ [][NextAddress]_vars

\* ------------------------------------------------------------------ claims
AllAddresses == Addresses \cup {"system"}

\* Rule(tx) holds of this step whenever the step is add_transaction(tx).
OnAdd(Rule(_)) ==
    last'.op = "add_transaction" =>
        /\ \A inp \in TxInputs :
               AddNewTransaction(inp) => Rule(NewTransaction(inp, now))
        /\ \A ref \in DOMAIN txs : AddKnownTransaction(ref) => Rule(txs[ref])

\* Rule(address) holds of this step whenever the step is
\* mine_pending_transactions(address).
OnMine(Rule(_)) ==
    last'.op = "mine_pending_transactions" =>
        \A address \in Miners : MinePendingTransactions(address) => Rule(address)

Balance(address) == get_balance(chain, txs, address)

FEq(a, b) == ~a.nan /\ ~b.nan /\ a.v = b.v

Count(refs, heap, id) ==
    Cardinality({i \in 1..Len(refs) : heap[refs[i]].transaction_id = id})

\* C1: every chain that mining has appended blocks to passes is_chain_valid.
C1_MinedChainIsValid == Len(chain) > 1 => is_chain_valid(chain, txs)[1]

\* One field of a transaction changed.
Tamperings(tx) ==
    {[tx EXCEPT !.sender_address = v] :
        v \in {"A1", "A2", "system", "evil"} \ {tx.sender_address}}
    \cup {[tx EXCEPT !.recipient_address = v] :
        v \in {"A1", "A2", "evil"} \ {tx.recipient_address}}
    \cup {[tx EXCEPT !.amount = v] : v \in {NaN, F(8), F(9), F(10)} \ {tx.amount}}
    \cup {[tx EXCEPT !.fee = v] : v \in {NaN, F(0), F(2)} \ {tx.fee}}
    \cup {[tx EXCEPT !.message = v] : v \in {"", "Mining reward", "x"} \ {tx.message}}
    \cup {[tx EXCEPT !.timestamp = v] : v \in (0..(MaxTime + 1)) \ {tx.timestamp}}
    \cup {[tx EXCEPT !.transaction_id = v] :
        v \in {None, <<"forged">>} \ {tx.transaction_id}}
    \cup {[tx EXCEPT !.signature = v] : v \in {None, <<"forged">>} \ {tx.signature}}
    \cup {[tx EXCEPT !.status = v] :
        v \in {"pending", "confirmed", "failed"} \ {tx.status}}

\* C2: changing one field of a transaction of block i > 0 makes
\* is_chain_valid return False with a reason that names block i.
C2_TamperingNamesTheBlock ==
    \A i \in 2..Len(chain) :
        \A j \in 1..Len(chain[i].transactions) :
            \A t \in Tamperings(txs[chain[i].transactions[j]]) :
                LET verdict == is_chain_valid(chain,
                                   [txs EXCEPT ![chain[i].transactions[j]] = t])
                IN  verdict[1] = FALSE /\ verdict[3] = chain[i].index

SignedBySender(tx) ==
    \E k \in Keys :
        /\ create_address(get_public_key(k)) = tx.sender_address
        /\ verify_signature(tx, get_public_key(k))

\* C3: every transaction admitted to the pending queue carries a signature
\* that verifies against the key of its sender over its payload.
C3_AdmittedIsSignedBySender ==
    \A i \in 1..Len(pending_transactions) : SignedBySender(txs[pending_transactions[i]])

RECURSIVE FSum(_)
FSum(floats) == IF floats = <<>> THEN F(0) ELSE FAdd(Head(floats), FSum(Tail(floats)))

Credits(refs, heap, address) ==
    [i \in 1..Len(refs) |->
        IF heap[refs[i]].recipient_address = address THEN heap[refs[i]].amount ELSE F(0)]

Debits(refs, heap, address) ==
    [i \in 1..Len(refs) |->
        IF heap[refs[i]].sender_address = address
        THEN FAdd(heap[refs[i]].amount, heap[refs[i]].fee)
        ELSE F(0)]

\* C4: the balance of an address is what the transactions of the chain's
\* blocks pay it minus what they take from it, amount and fee; the pending
\* queue does not count.
C4_BalanceIsChainReplay ==
    \A a \in AllAddresses :
        Balance(a) = FSub(FSum(Credits(ChainRefs(chain), txs, a)),
                          FSum(Debits(ChainRefs(chain), txs, a)))

C4_Witness ==
    /\ pending_transactions # <<>>
    /\ \E a \in Addresses :
        /\ ~Balance(a).nan
        /\ \E i \in 1..Len(ChainRefs(chain)) :
               txs[ChainRefs(chain)[i]].sender_address = a
        /\ \E i \in 1..Len(pending_transactions) :
               txs[pending_transactions[i]].sender_address = a

BalanceTooLow(tx) == FLess(Balance(tx.sender_address), FAdd(tx.amount, tx.fee))

BalanceExact(tx) == FEq(Balance(tx.sender_address), FAdd(tx.amount, tx.fee))

C5_AsStated(tx) ==
    is_valid(tx)[1] =>
        /\ last'.result = "Insufficient balance" <=> BalanceTooLow(tx)
        /\ BalanceExact(tx) => last'.result = "True"

\* C5 as stated: a valid transaction is refused for its balance exactly when
\* the sender's balance is below amount + fee, and is accepted when the two
\* are equal.
C5_AcceptedAtTheBoundary == [][OnAdd(C5_AsStated)]_vars

C5_Amended(tx) ==
    is_valid(tx)[1] =>
        /\ last'.result = "Insufficient balance" <=> BalanceTooLow(tx)
        /\ BalanceExact(tx) =>
               IF Count(transaction_pool.transactions, txs, tx.transaction_id) = 0
               THEN last'.result = "True"
               ELSE last'.result = "Transaction already exists in pool"

\* C5, amended: a valid transaction is refused for its balance exactly when
\* the sender's balance is below amount + fee; when the two are equal it is
\* accepted unless the pool already holds a pending transaction with its id,
\* and then it is refused as a duplicate.
C5_BalanceCheck == [][OnAdd(C5_Amended)]_vars

C5_Witness ==
    /\ last = [op |-> "add_transaction", result |-> "True"]
    /\ pending_transactions # <<>>
    /\ LET tx == txs[pending_transactions[Len(pending_transactions)]]
       IN  FEq(Balance(tx.sender_address), FAdd(tx.amount, tx.fee))

\* C6: a transaction that was accepted and is submitted again is refused as
\* a duplicate, and the pool and the pending queue keep one entry for its id.
C6_SecondSubmissionIsDuplicate ==
    [][\A ref \in DOMAIN txs :
          /\ \E i \in 1..Len(pending_transactions) : pending_transactions[i] = ref
          /\ AddKnownTransaction(ref)
          => /\ last'.result = "Transaction already exists in pool"
             /\ Count(transaction_pool'.transactions, txs', txs[ref].transaction_id) = 1
             /\ Count(pending_transactions', txs', txs[ref].transaction_id) = 1]_vars

C6_Witness ==
    /\ last = [op |-> "add_transaction",
               result |-> "Transaction already exists in pool"]
    /\ pending_transactions # <<>>

C7_Rule(tx) == last'.result # "True" => UNCHANGED <<txs, ledger>>

\* C7: when add_transaction raises, the chain, the pending queue and both
\* lists of the pool are as they were before the call.
C7_RejectionChangesNothing == [][OnAdd(C7_Rule)]_vars

C7_Witness ==
    /\ last = [op |-> "add_transaction",
               result |-> "Transaction already exists in pool"]
    /\ Len(chain) > 1

C8_Rule(address) ==
    pending_transactions = <<>> =>
        /\ last'.result = "False"
        /\ UNCHANGED <<txs, ledger>>
        /\ \A a \in AllAddresses : get_balance(chain', txs', a) = Balance(a)

\* C8: mining an empty pending queue returns False and changes nothing: no
\* block, no reward, the same chain, queue and pool.
C8_EmptyMineIsNoOp == [][OnMine(C8_Rule)]_vars

C8_Witness ==
    /\ last = [op |-> "mine_pending_transactions", result |-> "False"]
    /\ Len(chain) > 1

C9_Rule(address) ==
    pending_transactions # <<>> =>
        /\ last'.result = "True"
        /\ Len(chain') = Len(chain) + 1
        /\ SubSeq(chain', 1, Len(chain)) = chain
        /\ LET n == Len(pending_transactions)
               block == chain'[Len(chain')]
           IN  /\ Len(block.transactions) = n + 1
               /\ SubSeq(block.transactions, 1, n) = pending_transactions
               /\ LET reward == txs'[block.transactions[n + 1]]
                  IN  /\ reward.sender_address = "system"
                      /\ reward.recipient_address = address
                      /\ reward.amount = F(mining_reward)
                      /\ reward.fee = F(0)
               /\ \A a \in AllAddresses :
                      get_balance(chain', txs', a) =
                          FSub(FAdd(Balance(a),
                                    FSum(Credits(block.transactions, txs', a))),
                               FSum(Debits(block.transactions, txs', a)))

\* C9: mining n >= 1 pending transactions appends one block of n + 1
\* transactions, the pending ones in queue order and then the reward
\* ("system" to the reward address, mining_reward, fee 0); every balance
\* moves by what the block pays to and takes from the address.
C9_MinedBlock == [][OnMine(C9_Rule)]_vars

C9_Witness ==
    /\ last = [op |-> "mine_pending_transactions", result |-> "True"]
    /\ Len(chain[Len(chain)].transactions) >= 3
    /\ \E a \in Addresses : ~Balance(a).nan /\ Balance(a).v > 0

\* C10: the stored hash of every block after the genesis block starts with
\* difficulty zeros.
C10_ProofOfWork ==
    \A i \in 2..Len(chain) : HexPrefix(chain[i].hash, difficulty) = Zeros(difficulty)

C10_Witness == Len(chain) > 1 /\ chain[Len(chain)].nonce > 0

\* C11: the block at position i of the chain has index i, every block after
\* the first names the stored hash of the block before it, and the genesis
\* block has index 0, previous hash "0" and no transactions.
C11_ChainIsLinked ==
    /\ \A i \in 1..Len(chain) : chain[i].index = i - 1
    /\ \A i \in 2..Len(chain) : chain[i].previous_hash = chain[i - 1].hash
    /\ chain[1].previous_hash = <<"0">>
    /\ chain[1].transactions = <<>>

C11_Witness == Len(chain) > 2

\* C12: the stored hash of every block of the chain is the hash recomputed
\* from its index, timestamp, transactions, previous hash and nonce.
C12_StoredHashIsContentHash ==
    \A i \in 1..Len(chain) : chain[i].hash = Block_calculate_hash(chain[i], txs)

\* C13: a successful mine_pending_transactions appends one block, and no
\* other step changes the chain; a block that was appended keeps its place,
\* its fields and its transactions.
C13_AppendOnly ==
    [][/\ chain' # chain =>
              /\ last' = [op |-> "mine_pending_transactions", result |-> "True"]
              /\ pending_transactions # <<>>
              /\ Len(chain') = Len(chain) + 1
              /\ SubSeq(chain', 1, Len(chain)) = chain
       /\ OnMine(LAMBDA address :
                     last'.result = "True" => Len(chain') = Len(chain) + 1)]_vars

C13_Witness ==
    /\ Len(chain) > 2
    /\ last.op = "add_transaction"
    /\ pending_transactions # <<>>

History(address) ==
    get_transaction_history(chain, pending_transactions, txs, address, 10)

InSeq(seq, x) == \E i \in 1..Len(seq) : seq[i] = x

C14_Rule(tx) ==
    last'.result = "True" =>
        /\ \A a \in AllAddresses : get_balance(chain', txs', a) = Balance(a)
        /\ \A a \in {tx.sender_address, tx.recipient_address} :
               \E ref \in DOMAIN txs' :
                   /\ txs'[ref] = tx
                   /\ InSeq(get_transaction_history(chain', pending_transactions',
                                                    txs', a, 10), ref)
        /\ search_transaction(chain', pending_transactions', txs',
                              tx.transaction_id)[2] = "pending"

\* C14: an accepted add_transaction changes no balance, and the transaction
\* is at once in the history of its sender and of its recipient and is
\* reported "pending" by search_transaction.
C14_PendingIsVisibleNotSpendable == [][OnAdd(C14_Rule)]_vars

C15_Rule(address) ==
    pending_transactions # <<>> =>
        LET block == chain'[Len(chain')]
        IN  /\ pending_transactions' = <<>>
            /\ transaction_pool'.transactions = <<>>
            /\ \A i \in 1..Len(pending_transactions) :
                   LET ref == pending_transactions[i]
                   IN  /\ Cardinality({j \in 1..Len(block.transactions) :
                                          block.transactions[j] = ref}) = 1
                       /\ txs'[ref].status = "confirmed"
                       /\ InSeq(transaction_pool'.confirmed_transactions, ref)

\* C15: every accepted transaction waits in the pending queue until the next
\* successful mine_pending_transactions, which puts each queued transaction
\* once into the block it appends, marks it confirmed in the pool and leaves
\* the queue empty.
C15_MiningDrainsTheQueue ==
    [][/\ OnMine(C15_Rule)
       /\ \A ref \in DOMAIN txs :
              InSeq(pending_transactions, ref) /\ ~InSeq(pending_transactions', ref)
              => last'.op = "mine_pending_transactions" /\ last'.result = "True"
       /\ OnAdd(LAMBDA tx : last'.result = "True" =>
                    \E ref \in DOMAIN txs' :
                        txs'[ref] = tx /\ InSeq(pending_transactions', ref))]_vars

C15_Witness ==
    /\ last = [op |-> "mine_pending_transactions", result |-> "True"]
    /\ Len(chain[Len(chain)].transactions) >= 3
    /\ Len(transaction_pool.confirmed_transactions) >= 2

WellFormed(tx) ==
    /\ tx.sender_address # ""
    /\ tx.recipient_address # ""
    /\ tx.sender_address # tx.recipient_address
    /\ FLess(F(0), tx.amount)
    /\ FLeq(F(0), tx.fee)
    /\ tx.signature # None
    /\ tx.transaction_id # None

\* C16: is_valid accepts a transaction exactly when sender and recipient are
\* non-empty and different, amount > 0, fee >= 0 and signature and id are
\* present.
C16_IsValidIffWellFormed ==
    [][\A ref \in DOMAIN txs :
          IsValid(ref) =>
              (last'.result = "Transaction is valid" <=> WellFormed(txs[ref]))]_vars

ChangedSinceSigned(tx) ==
    /\ tx.transaction_id # None
    /\ tx.transaction_id # Transaction_calculate_hash(tx)

\* C17: a transaction one of whose signed fields was changed after signing
\* is refused by is_valid and by add_transaction.
C17_ChangedAfterSigningIsInvalid ==
    [][\A ref \in DOMAIN txs :
          ChangedSinceSigned(txs[ref]) =>
              /\ IsValid(ref) => last'.result # "Transaction is valid"
              /\ AddKnownTransaction(ref) => last'.result # "True"]_vars

SignedFields ==
    {"sender_address", "recipient_address", "amount", "fee", "message", "timestamp"}

IdIsPayloadHash(tx) ==
    /\ DOMAIN tx.transaction_id[2] = SignedFields
    /\ \A f \in SignedFields : tx.transaction_id[2][f] = tx[f]
    /\ tx.transaction_id[1] = "sha256"

SignedWith(tx, private_key) ==
    \E k \in Nonces :
        tx.signature = sign_message(private_key, get_transaction_data(tx), k)

C18_AsStated(ref, private_key) ==
    /\ IdIsPayloadHash(txs'[ref])
    /\ SignedWith(txs[ref], private_key) /\ SignedAndUnchanged(txs[ref]) =>
           /\ txs'[ref].transaction_id = txs[ref].transaction_id
           /\ txs'[ref].signature = txs[ref].signature

\* C18 as stated: signing sets the id to the hash of the six signed fields,
\* and signing a signed transaction again with the same key leaves the same
\* id and the same signature.
C18_SigningIsIdempotent ==
    [][\A ref \in DOMAIN txs, private_key \in SigningKeys :
          (\E k \in Nonces : SignTransaction(ref, private_key, k))
          => C18_AsStated(ref, private_key)]_vars

C18_Amended(ref, private_key) ==
    /\ IdIsPayloadHash(txs'[ref])
    /\ verify_signature(txs'[ref], get_public_key(private_key))
    /\ SignedWith(txs[ref], private_key) /\ SignedAndUnchanged(txs[ref]) =>
           txs'[ref].transaction_id = txs[ref].transaction_id

\* C18, amended: signing sets the id to the hash of the six signed fields
\* and the signature to one that verifies under the key; signing again with
\* the same key leaves the same id, and the signature may be another one.
C18_SigningKeepsTheId ==
    [][\A ref \in DOMAIN txs, private_key \in SigningKeys :
          (\E k \in Nonces : SignTransaction(ref, private_key, k))
          => C18_Amended(ref, private_key)]_vars

C18_Witness ==
    /\ last.op = "sign_transaction"
    /\ SignedAndUnchanged(txs[1])
    /\ txs[1].signature[4] = 2
    /\ txs[1].message = "x"

\* C19: verify_signature returns False for an unsigned transaction and for a
\* malformed signature, True for the key the transaction was signed with
\* while it is unchanged, and False for any other key.
C19_VerifySignature ==
    [][\A ref \in DOMAIN txs :
          /\ \A private_key \in SigningKeys, k \in Nonces :
                 SignTransaction(ref, private_key, k) =>
                     \A other \in Keys :
                         verify_signature(txs'[ref], get_public_key(other))
                             <=> other = private_key
          /\ \A changed \in SignedFieldChanges(txs[ref]) :
                 SetAttr(ref, changed) =>
                     \A other \in Keys :
                         ~verify_signature(txs'[ref], get_public_key(other))
          /\ \A private_key \in Keys :
                 VerifySignature(ref, private_key) =>
                     /\ txs[ref].signature \in TxSignatures => last'.result = "False"
                     /\ last'.result \in {"True", "False"}
                     /\ last'.result = "True" <=>
                            SignedWith(txs[ref], private_key)]_vars

C19_Witness ==
    /\ last = [op |-> "verify_signature", result |-> "True"]
    /\ txs[1].signature # None

NoTwoWithTheSameId(refs, heap) ==
    \A i, j \in 1..Len(refs) :
        heap[refs[i]].transaction_id = heap[refs[j]].transaction_id => i = j

C20_Rule(ref) ==
    IF \/ ~is_valid(txs[ref])[1]
       \/ Count(transaction_pool.transactions, txs, txs[ref].transaction_id) > 0
    THEN /\ last'.result # "True"
         /\ transaction_pool' = transaction_pool
    ELSE /\ last'.result = "True"
         /\ transaction_pool'.transactions = Append(transaction_pool.transactions, ref)
         /\ transaction_pool'.confirmed_transactions =
                transaction_pool.confirmed_transactions

\* C20: the pool refuses an invalid transaction and one whose id is pending,
\* and is then unchanged; any other transaction is appended at the end of
\* the pending list, which never holds two entries with the same id.
C20_PoolAdd ==
    [][/\ \A ref \in DOMAIN txs : PoolAddTransaction(ref) => C20_Rule(ref)
       /\ NoTwoWithTheSameId(transaction_pool'.transactions, txs')
       /\ SubSeq(transaction_pool'.transactions, 1,
                 Len(transaction_pool.transactions)) = transaction_pool.transactions]_vars

C20_Witness ==
    /\ last = [op |-> "pool.add_transaction",
               result |-> "Transaction already exists in pool"]
    /\ transaction_pool.transactions = <<2, 1>>

Occurrences(seq, x) == Cardinality({i \in 1..Len(seq) : seq[i] = x})

HistoryLimits == {0 - 1, 0, 1, 2, 10}

\* C22: the history of an address holds each transaction of the chain and
\* of the pending queue that the address sends or receives, as often as it
\* is there, newest first; a limit > 0 keeps the first limit entries, a
\* limit <= 0 keeps all.
C22_History ==
    \A a \in AllAddresses :
        LET all == get_transaction_history(chain, pending_transactions, txs, a, 0)
        IN  /\ \A ref \in DOMAIN txs :
                   Occurrences(all, ref) =
                       IF txs[ref].sender_address = a \/ txs[ref].recipient_address = a
                       THEN Occurrences(ChainRefs(chain), ref)
                            + Occurrences(pending_transactions, ref)
                       ELSE 0
            /\ \A i \in 1..(Len(all) - 1) :
                   txs[all[i]].timestamp >= txs[all[i + 1]].timestamp
            /\ \A limit \in HistoryLimits :
                   get_transaction_history(chain, pending_transactions, txs, a, limit) =
                       IF limit > 0 /\ limit < Len(all) THEN SubSeq(all, 1, limit) ELSE all

C22_Witness ==
    /\ pending_transactions # <<>>
    /\ Len(chain) > 2
    /\ LET all == History("A2")
       IN  /\ Len(all) >= 3
           /\ txs[all[1]].timestamp > txs[all[Len(all)]].timestamp

\* C23: search_transaction returns the first transaction with the id in
\* chain order as "confirmed" when a block holds one, also when the id is in
\* the pending queue too; else the first one in the pending queue as
\* "pending"; else nothing, "not_found".
C23_Search ==
    \A id \in {txs[ref].transaction_id : ref \in DOMAIN txs} \cup {<<"unknown">>} :
        LET found == search_transaction(chain, pending_transactions, txs, id)
            mined == ChainRefs(chain)
            inChain == {i \in 1..Len(mined) : txs[mined[i]].transaction_id = id}
            inQueue == {i \in 1..Len(pending_transactions) :
                           txs[pending_transactions[i]].transaction_id = id}
        IN  IF inChain # {}
            THEN /\ found[2] = "confirmed"
                 /\ \E i \in inChain :
                        found[1] = mined[i] /\ \A j \in inChain : i <= j
            ELSE IF inQueue # {}
            THEN /\ found[2] = "pending"
                 /\ \E i \in inQueue :
                        found[1] = pending_transactions[i] /\ \A j \in inQueue : i <= j
            ELSE found = <<0, "not_found">>

C23_Witness ==
    \E ref \in DOMAIN txs :
        /\ InSeq(pending_transactions, ref)
        /\ Count(ChainRefs(chain), txs, txs[ref].transaction_id) > 0

\* C30: a transaction of the chain whose sender is "system" is the last of
\* its block and pays mining_reward with fee 0, every block after the first
\* holds one such transaction, and no transaction whose sender is "system"
\* is admitted to the pending queue.
C30_MintOnlyByMining ==
    /\ \A i \in 2..Len(chain) :
           LET refs == chain[i].transactions
           IN  /\ Cardinality({j \in 1..Len(refs) :
                                  txs[refs[j]].sender_address = "system"}) = 1
               /\ \A j \in 1..Len(refs) :
                      txs[refs[j]].sender_address = "system" =>
                          /\ j = Len(refs)
                          /\ txs[refs[j]].amount = F(mining_reward)
                          /\ txs[refs[j]].fee = F(0)
    /\ \A i \in 1..Len(pending_transactions) :
           txs[pending_transactions[i]].sender_address # "system"

C21_Rule(transaction_id) ==
    LET pending == transaction_pool.transactions
        hits == {i \in 1..Len(pending) : txs[pending[i]].transaction_id = transaction_id}
    IN  IF hits # {}
        THEN \E i \in hits :
                 /\ \A j \in hits : i <= j
                 /\ last'.result = "True"
                 /\ transaction_pool'.transactions = RemoveAt(pending, i)
                 /\ transaction_pool'.confirmed_transactions =
                        Append(transaction_pool.confirmed_transactions, pending[i])
                 /\ txs'[pending[i]].status = "confirmed"
                 /\ \A ref \in DOMAIN txs :
                        /\ to_dict([txs'[ref] EXCEPT !.status = "pending"])
                               = to_dict([txs[ref] EXCEPT !.status = "pending"])
                        /\ ref # pending[i] => txs'[ref] = txs[ref]
        ELSE /\ last'.result = "False"
             /\ UNCHANGED <<txs, transaction_pool>>

\* C21: confirm_transaction moves the pending entry with the id to the end
\* of the confirmed list, sets its status to "confirmed" and returns True;
\* with no such pending entry it returns False and changes nothing.
C21_Confirm ==
    [][\A transaction_id \in PoolIds :
          PoolConfirmTransaction(transaction_id) => C21_Rule(transaction_id)]_vars

C21_Witness ==
    /\ last = [op |-> "pool.confirm_transaction", result |-> "True"]
    /\ Len(transaction_pool.confirmed_transactions) >= 2
    /\ transaction_pool.transactions # <<>>
    /\ \E ref \in DOMAIN txs : txs[ref].status = "pending"

HashIsRight(i) == chain[i].hash = Block_calculate_hash(chain[i], txs)

LinkIsRight(i) == chain[i].previous_hash = chain[i - 1].hash

TargetIsMet(i) == HexPrefix(chain[i].hash, difficulty) = Zeros(difficulty)

BlockIsSound(i) == HashIsRight(i) /\ LinkIsRight(i) /\ TargetIsMet(i)

\* C24: is_chain_valid returns True exactly when every block after the
\* first has the hash recomputed from it, the stored hash of the block
\* before it as previous hash, and difficulty leading zeros; otherwise its
\* reason names the first block that fails, for the hash before the link
\* and the link before the target; the hash of the genesis block is not
\* recomputed.
C24_IsChainValid ==
    [][IsChainValid =>
          IF \A i \in 2..Len(chain) : BlockIsSound(i)
          THEN last'.result = "Blockchain is valid"
          ELSE \E i \in 2..Len(chain) :
                   /\ ~BlockIsSound(i)
                   /\ \A j \in 2..(i - 1) : BlockIsSound(j)
                   /\ last'.block = chain[i].index
                   /\ last'.result =
                          IF ~HashIsRight(i) THEN "Invalid hash at block"
                          ELSE IF ~LinkIsRight(i) THEN "Invalid previous hash at block"
                          ELSE "not properly mined: Block"]_vars

C24_Witness ==
    /\ last = [op |-> "is_chain_valid",
               result |-> "Invalid previous hash at block", block |-> 2]
    /\ ~TargetIsMet(3)
    /\ chain[1].hash # Block_calculate_hash(chain[1], txs)

\* C25: when two calls of add_transaction with one signed transaction
\* overlap, the pool and the pending queue end up with one entry for its id.
C25_OneEntryForAnId ==
    /\ NoTwoWithTheSameId(pending_transactions, txs)
    /\ NoTwoWithTheSameId(transaction_pool.transactions, txs)

Quiet == \A c \in Callers : calls[c].pc = "idle"

\* C26: when add_transaction and mine_pending_transactions overlap, every
\* transaction that was accepted is afterwards in the pending queue or in a
\* block, and none is confirmed in the pool without being in a block.
C26_NothingLost ==
    Quiet =>
        \A ref \in DOMAIN txs :
            /\ InSeq(transaction_pool.transactions, ref) =>
                   InSeq(pending_transactions, ref) \/ InSeq(ChainRefs(chain), ref)
            /\ InSeq(transaction_pool.confirmed_transactions, ref) =>
                   InSeq(ChainRefs(chain), ref)

\* C27: a reader sees the state before mining or the state after it: the
\* step that appends the block is the step that empties the pending queue
\* and has the queued transactions confirmed in the pool, and while the
\* proof of work runs no balance changes.
C27_MiningIsAllOrNothing ==
    [][/\ chain' # chain =>
              /\ pending_transactions' = <<>>
              /\ \A i \in 1..Len(pending_transactions) :
                     /\ txs'[pending_transactions[i]].status = "confirmed"
                     /\ InSeq(transaction_pool'.confirmed_transactions,
                              pending_transactions[i])
       /\ transaction_pool'.confirmed_transactions
              # transaction_pool.confirmed_transactions => chain' # chain
       /\ calls["m"].pc = "mine_block" /\ calls'["m"].pc # "confirm" =>
              \A a \in AllAddresses : get_balance(chain', txs', a) = Balance(a)]_vars

\* C28: when mine_pending_transactions is interrupted, the chain is as it
\* was when the call began, and the transactions it was mining are still in
\* the pending queue and pending in the pool.
C28_InterruptedMiningChangesNothing ==
    [][Interrupt =>
          LET block == calls["m"].block
              queued == SubSeq(block.transactions, 1, Len(block.transactions) - 1)
          IN  /\ Len(chain') = block.index
              /\ SubSeq(pending_transactions', 1, Len(queued)) = queued
              /\ \A i \in 1..Len(queued) :
                     InSeq(transaction_pool'.transactions, queued[i])]_vars

\* ---- C29
\* The block as it would be with nonce n and the hash of that.
WithNonce(block, n) ==
    LET b == [block EXCEPT !.nonce = n]
    IN  [b EXCEPT !.hash = Block_calculate_hash(b, txs)]

\* Nonce n gives a hash with d leading zeros.
MeetsTarget(block, d, n) == HexPrefix(WithNonce(block, n).hash, d) = Zeros(d)

Mining == calls["m"].pc = "mine_block"

MineReturned ==
    /\ calls["m"].pc = "idle"
    /\ last.op = "mine_block"
    /\ last.result = "None"

\* a block that was just constructed has nonce 0 and its own hash
C29_StartsAtZero ==
    last.op = "Block" =>
        /\ calls["m"].block.nonce = 0
        /\ calls["m"].block.hash = Block_calculate_hash(calls["m"].block, txs)

\* a turn of the loop adds exactly 1 to nonce, computes the hash of the
\* block again and changes nothing else
C29_Turn ==
    Mining /\ calls'["m"].block # calls["m"].block =>
        /\ calls'["m"].block.nonce = calls["m"].block.nonce + 1
        /\ calls'["m"].block.hash = Block_calculate_hash(calls'["m"].block, txs)
        /\ calls'["m"].block = WithNonce(calls["m"].block, calls["m"].block.nonce + 1)
        /\ calls'["m"].pc = "mine_block"

\* the call returns only on a hash with `difficulty` leading zeros
C29_ReturnsOnTarget ==
    Mining /\ calls'["m"].pc = "idle" =>
        /\ calls'["m"].block = calls["m"].block
        /\ HexPrefix(calls["m"].block.hash, calls["m"].difficulty)
               = Zeros(calls["m"].difficulty)

\* what a returned call leaves: the smallest nonce from the starting one on
\* that meets the target, with the hash of the block, and all else as it was
C29_Smallest ==
    MineReturned =>
        LET block == calls["m"].block
            d == calls["m"].difficulty
        IN  /\ block.nonce >= last.block.nonce
            /\ MeetsTarget(last.block, d, block.nonce)
            /\ \A n \in last.block.nonce..(block.nonce - 1) :
                   ~MeetsTarget(last.block, d, n)
            /\ block.hash = Block_calculate_hash(block, txs)
            /\ block = WithNonce(last.block, block.nonce)
            /\ block = mine_block(last.block, txs, d)
            /\ d = 0 => block = last.block

\* while no nonce from the starting one up to the present one meets the
\* target, the call is still running
C29_NoReturnWithoutTarget ==
    /\ last.op = "mine_block"
    /\ \A n \in last.block.nonce..calls["m"].block.nonce :
           ~MeetsTarget(last.block, calls["m"].difficulty, n)
    => Mining

\* with difficulty 0 the call returns in its first step
C29_ZeroReturnsAtOnce ==
    Mining /\ calls["m"].difficulty = 0 =>
        /\ calls["m"].block = last.block
        /\ calls'["m"].pc = "idle"

\* C29: Block.mine_block(difficulty) works on a block that starts at nonce 0;
\* every turn adds exactly 1 to nonce and computes the hash again; the call
\* returns if and only if some nonce from the starting one on gives a hash
\* with `difficulty` leading zeros, and then it leaves the smallest such
\* nonce with hash = calculate_hash(); with difficulty 0 it returns at once
\* and changes neither nonce nor hash.
C29_MineBlock ==
    /\ [](C29_StartsAtZero /\ C29_Smallest /\ C29_NoReturnWithoutTarget)
    /\ [][C29_Turn /\ C29_ReturnsOnTarget /\ C29_ZeroReturnsAtOnce]_vars
    /\ \A d \in 0..MaxDifficulty :
           (/\ Mining
            /\ calls["m"].difficulty = d
            /\ \E n \in calls["m"].block.nonce..MaxNonce :
                   MeetsTarget(calls["m"].block, d, n))
           ~> MineReturned

\* a call with the difficulty of the chain has returned after some turns
C29_Witness ==
    /\ MineReturned
    /\ calls["m"].difficulty = difficulty
    /\ calls["m"].block.nonce > last.block.nonce
    /\ last.block.nonce = 0

\* ---- C31
\* The balances of all addresses, added up.
TotalBalance ==
    FSum([i \in 1..3 |-> Balance(<<"A1", "A2", "system">>[i])])

\* The fees of the transactions in the chain, added up.
ChainFees ==
    LET refs == ChainRefs(chain) IN FSum([i \in 1..Len(refs) |-> txs[refs[i]].fee])

\* C31: fees are burned: in every reachable state the balances of all
\* addresses, "system" included, add up to minus the fees of the
\* transactions in the chain.
C31_FeesAreBurned == FEq(TotalBalance, FSub(F(0), ChainFees))

\* ---- C32
\* C32: balance sufficiency: from a chain on which no address other than
\* "system" has a balance below 0, no sequence of add_transaction and
\* mine_pending_transactions calls brings the balance of such an address
\* below 0, also when one sender has several transactions pending at once.
\* (A balance that is NaN is let through here: the claim asks for more, and
\* what is left is the overdraft alone.)
C32_NoOverdraft == \A a \in Addresses : ~FLess(Balance(a), F(0))

\* ---- C33
\* C33: a signed transaction is executed at most once: the id that signing
\* gave it is on at most one transaction of the chain, over all blocks, also
\* when the transaction is submitted again after it was confirmed.
C33_ExecutedAtMostOnce ==
    \A ref \in UserTxs :
        txs[ref].transaction_id # None =>
            Count(ChainRefs(chain), txs, txs[ref].transaction_id) <= 1

\* ---- C34
\* Idle: nothing is pending.  Accumulating: something is.
Accumulating == pending_transactions # <<>>

\* a Blockchain as its constructor leaves it
Fresh ==
    /\ chain = <<create_genesis_block(0)>>
    /\ pending_transactions = <<>>
    /\ transaction_pool = TransactionPool

\* a block is appended only by mine_pending_transactions, only while
\* transactions are pending, and the queue is empty after it
C34_Appended ==
    Len(chain') > Len(chain) =>
        /\ Accumulating
        /\ \E address \in Miners : MinePendingTransactions(address)
        /\ last' = [op |-> "mine_pending_transactions", result |-> "True"]
        /\ ~Accumulating'

\* the queue is filled only by add_transaction
C34_Accumulated ==
    ~Accumulating /\ Accumulating' =>
        last' = [op |-> "add_transaction", result |-> "True"]

\* C34: a Blockchain starts with the genesis block alone and nothing
\* pending, and the public operations take it through the block-producing
\* cycle: add_transaction makes the queue non-empty, and from a non-empty
\* queue mine_pending_transactions makes the chain longer than one block
\* (C34_Witness is such a state).
C34_Cycle == Fresh /\ [][C34_Appended /\ C34_Accumulated]_vars

\* a block has just been mined on a fresh chain from a queue that
\* add_transaction had filled
C34_Witness ==
    /\ Len(chain) = 2
    /\ chain[2].index = 1
    /\ Len(chain[2].transactions) = 2
    /\ last = [op |-> "mine_pending_transactions", result |-> "True"]
    /\ ~Accumulating
    /\ transaction_pool.confirmed_transactions = <<chain[2].transactions[1]>>

\* ---- C35
\* The transactions of the chain's blocks that callers submitted, in chain
\* order: all but the rewards that mining made.
SubmittedInChain == SelectSeq(ChainRefs(chain), LAMBDA ref : ref \in UserTxs)

\* C35: between operations the pool mirrors the ledger: its pending list is
\* the pending queue, the same objects in the same order, and its confirmed
\* list is the chain's transactions without the rewards, in chain order,
\* no reward being in the pool.
C35_PoolMirrorsLedger ==
    /\ transaction_pool.transactions = pending_transactions
    /\ transaction_pool.confirmed_transactions = SubmittedInChain

\* ---- C36
PendingArePending ==
    \A i \in 1..Len(pending_transactions) :
        txs[pending_transactions[i]].status = "pending"

ChainIsConfirmed ==
    \A i \in 1..Len(ChainRefs(chain)) : txs[ChainRefs(chain)[i]].status = "confirmed"

NeverBackToPending ==
    \A ref \in DOMAIN txs :
        txs[ref].status = "confirmed" /\ ref \in DOMAIN txs' =>
            txs'[ref].status = "confirmed"

\* C36: between operations every transaction in the pending queue has
\* status "pending" and every transaction in a block of the chain has
\* status "confirmed", and no status goes from "confirmed" back to "pending".
C36_Lifecycle ==
    /\ [](PendingArePending /\ ChainIsConfirmed)
    /\ [][NeverBackToPending]_vars

\* ---- C37
\* C37: transaction ids are unique within the chain: no two distinct
\* transactions in the chain's blocks, rewards included, have the same
\* transaction_id.
C37_ChainIdsAreUnique ==
    \A i, j \in 1..Len(ChainRefs(chain)) :
        ChainRefs(chain)[i] # ChainRefs(chain)[j] =>
            txs[ChainRefs(chain)[i]].transaction_id
                # txs[ChainRefs(chain)[j]].transaction_id

\* ---- C38
Locked == ~wallet.is_unlocked

\* This step is a call of send_transaction.
Sends ==
    \E recipient_address \in Addresses, amount \in Amounts, fee \in Fees :
        WalletSendTransaction(recipient_address, amount, fee)

\* is_unlocked says whether a private key is held
C38_UnlockedIffKey == wallet.is_unlocked <=> wallet.private_key # NoKey

\* lock_wallet clears both keys and nothing else
C38_Lock ==
    LockWallet =>
        /\ wallet'.private_key = NoKey
        /\ wallet'.public_key = None
        /\ ~wallet'.is_unlocked
        /\ wallet'.address = wallet.address
        /\ wallet'.file = wallet.file

\* a locked wallet sends nothing
C38_LockedSend ==
    Locked /\ Sends =>
        /\ last'.result = "Wallet is locked"
        /\ UNCHANGED <<txs, ledger>>

\* a locked wallet that has kept its address reports and mines as an
\* unlocked one does, and the reward goes to that address
C38_LockedReads ==
    Locked /\ wallet.address # NoKey =>
        /\ WalletGetBalance =>
               /\ last'.result = "float"
               /\ last'.value = get_balance(chain, txs, wallet.address)
        /\ WalletGetTransactionHistory => last'.result = "list"
        /\ WalletMineBlock =>
               /\ last'.result = IF pending_transactions = <<>> THEN "False" ELSE "True"
               /\ pending_transactions # <<>> =>
                      /\ Len(chain') = Len(chain) + 1
                      /\ LET block == get_latest_block(chain')
                             reward == txs'[block.transactions[Len(block.transactions)]]
                         IN  /\ reward.sender_address = "system"
                             /\ reward.recipient_address = wallet.address

\* generating, importing or loading a key unlocks the wallet
C38_Unlock ==
    /\ \A private_key \in Keys :
           GenerateNewWallet(private_key) =>
               wallet'.is_unlocked /\ wallet'.private_key = private_key
    /\ \A private_key_hex \in KeyHexes :
           ImportWallet(private_key_hex) /\ last'.result = "True" =>
               /\ wallet'.is_unlocked
               /\ wallet'.private_key = private_key_from_hex(private_key_hex)
    /\ \A password \in Passwords :
           LoadWallet(password) /\ last'.result = "True" =>
               wallet'.is_unlocked /\ wallet'.private_key # NoKey

\* C38: is_unlocked is true exactly when a private key is held; lock_wallet
\* clears the private and the public key and keeps the address; a locked
\* wallet fails send_transaction with "Wallet is locked" and queues nothing,
\* while get_balance, get_transaction_history and mine_block, which pays the
\* reward to the address kept, still work; generate_new_wallet,
\* import_wallet and a successful load_wallet unlock the wallet again.
C38_LockState ==
    /\ []C38_UnlockedIffKey
    /\ [][C38_Lock /\ C38_LockedSend /\ C38_LockedReads /\ C38_Unlock]_vars

\* a locked wallet has just mined a block, and the reward of the block
\* names the address it kept
C38_Witness ==
    /\ Locked
    /\ wallet.private_key = NoKey
    /\ wallet.address = "A1"
    /\ last = [op |-> "mine_block", result |-> "True", value |-> F(0)]
    /\ txs[get_latest_block(chain).transactions[
               Len(get_latest_block(chain).transactions)]].recipient_address = "A1"

\* ---- C39
\* 25 bytes: a version byte, 20 bytes of hash and the first 4 bytes of the
\* double hash of those 21
WellFormedAddress(bytes) ==
    /\ Len(bytes) = 25
    /\ SubSeq(bytes, 22, 25) = Checksum(SubSeq(bytes, 1, 21))

\* what create_address makes decodes to 25 well-formed bytes of version 0
C39_Created ==
    last.op = "create_address" =>
        /\ IsBase58(last.address)
        /\ WellFormedAddress(b58decode(last.address))
        /\ b58decode(last.address)[1] = 0
        /\ b58encode(b58decode(last.address)) = last.address

\* is_address_valid accepts only what decodes to 25 well-formed bytes
C39_Accepted ==
    last.op = "is_address_valid" /\ last.result = "True" =>
        /\ IsBase58(last.address)
        /\ WellFormedAddress(b58decode(last.address))

\* C39: every address create_address makes decodes to exactly 25 bytes, a
\* version byte, 20 hash bytes and 4 checksum bytes, whose checksum is the
\* first 4 bytes of the double hash of the 21 bytes before it; and
\* is_address_valid accepts a text only if it decodes to 25 such bytes.
C39_AddressValidity == C39_Created /\ C39_Accepted

====
